---- MODULE Spec2Model ----
(***************************************************************************)
(* Plant evolution simulator: the voxel world, the plant entities and the  *)
(* per-frame systems registered in src/src/main.rs.                        *)
(*                                                                         *)
(* Units.  The program computes in f32; the model uses fixed point:        *)
(*   time      1 = 0.25 s            (time.delta_secs())                   *)
(*   energy    1 = 1/400 energy      (PlantBiology::energy)                *)
(*   soil      1 = 0.05              (nutrients, water)                    *)
(*   light     1 = 0.001             (light_level)                         *)
(*   gene      1 = 0.001             (Gene::value)                         *)
(*   distance  1 = 0.000001          (Genome::distance)                    *)
(*                                                                         *)
(* Scheduling.  main.rs adds every system to the Update schedule without   *)
(* an ordering constraint (no .chain(), .before() or .after()), so within  *)
(* one frame each system runs once, in an order the scheduler is free to   *)
(* choose.  Systems whose data access conflicts never overlap, and systems *)
(* that may overlap share no data, so a frame is an interleaving of whole  *)
(* system runs.  The order of a frame is drawn from Schedules.  Commands   *)
(* (spawn, despawn) are deferred to the end of the schedule.  A run        *)
(* condition attached to a tuple of systems is evaluated once per frame,   *)
(* the first time a system of the tuple is about to run.                   *)
(***************************************************************************)
EXTENDS Integers, Sequences, FiniteSets, TLC

\* ------------------------------------------------------------------ bounds
WORLD_WIDTH == 2
WORLD_HEIGHT == 11
WORLD_DEPTH == 1
INITIAL_SEED_COUNT == 2
MaxPlants == 3
MaxTicks == 2

\* frame deltas the clock may report (0.25 s, 0.5 s)
DtSet == {1, 2}

\* ------------------------------------------------------------ config.rs
SUNLIGHT_MAX == 100000
SOIL_NUTRIENT_MAX == 2000
SOIL_WATER_MAX == 2000
NUTRIENT_REGEN_RATE == 2
WATER_REGEN_RATE == 4
BASE_GROWTH_COST == 4000
BASE_MAINTENANCE_COST == 30
ROOT_ABSORPTION_RATE == 5
REPRODUCTION_ENERGY_COST == 20000
SEED_DISPERSAL_RANGE == 5
MUTATION_STRENGTH == 100
STATS_UPDATE_INTERVAL == 4
STATS_HISTORY_SIZE == 1000
SPECIES_DIVERGENCE_THRESHOLD == 250000
GROWTH_INTERVAL == 2
STARTING_ENERGY == 20000
DAY_LENGTH == 240
SPECIES_CLUSTER_THRESHOLD == 150000

VARIABLES
    world,            \* VoxelWorld::voxels, indexed by pos_to_index + 1
    plants,           \* entity index -> the plant's components
    species_counter,  \* SpeciesCounter::next_id
    seeds_to_spawn,   \* deferred spawn commands of this frame
    despawn_queue,    \* deferred despawn commands of this frame
    time_of_day,      \* DayNightCycle::time_of_day
    snapshots,        \* StatisticsHistory::snapshots
    update_timer,     \* StatisticsHistory::update_timer (elapsed part)
    paused,           \* SimulationState::paused
    key_p,            \* keyboard.just_pressed(KeyCode::KeyP) in this frame
    dt,               \* time.delta() of this frame
    elapsed,          \* time.elapsed() at this frame
    order,            \* the order in which the scheduler runs the systems in this frame
    sched,            \* system -> "ready" | "ran" | "skipped" in this frame
    cond,             \* run condition of each gated tuple, once evaluated
    frame,            \* number of the current frame
    sim_tick,         \* history: completed frames in which the plant systems ran
    died_at,          \* history: entity index -> sim_tick at which it died
    probe             \* the input of a function-level specification (unused by Spec)

vars == <<world, plants, species_counter, seeds_to_spawn, despawn_queue,
          time_of_day, snapshots, update_timer, paused, key_p, dt, elapsed,
          order, sched, cond, frame, sim_tick, died_at, probe>>

\* ------------------------------------------------------------ helpers
Min(a, b) == IF a < b THEN a ELSE b
Max(a, b) == IF a > b THEN a ELSE b
Abs(a) == IF a < 0 THEN 0 - a ELSE a
Clamp(v, lo, hi) == IF v < lo THEN lo ELSE IF v > hi THEN hi ELSE v

RECURSIVE SeqSum(_)
SeqSum(s) == IF s = <<>> THEN 0 ELSE Head(s) + SeqSum(Tail(s))

RECURSIVE SortedSeq(_)
SortedSeq(S) ==
    IF S = {} THEN <<>>
    ELSE LET m == CHOOSE x \in S : \A y \in S : x <= y
         IN <<m>> \o SortedSeq(S \ {m})

Range(s) == {s[i] : i \in 1..Len(s)}

\* ------------------------------------------------------------ voxel.rs
VoxelPos(x, y, z) == <<x, y, z>>

\* an index whose z stride is the depth instead of the width
PosToIndexDepthStride(x, y, z, width, depth) == x + z * depth + y * width * depth

\* VoxelWorld::pos_to_index
PosToIndex(x, y, z, width, depth) == x + z * width + y * width * depth

Absent == [voxel_type |-> "Absent"]

\* the species tag of a cell that no code path has written
NoSpecies == -1

DefaultVoxel ==
    [voxel_type |-> "Air", plant_id |-> 0, species_id |-> NoSpecies, light_level |-> 0,
     nutrients |-> SOIL_NUTRIENT_MAX, water |-> SOIL_WATER_MAX]

\* a VoxelWorld value g = [voxels, width, height, depth]; voxels is indexed
\* by pos_to_index + 1
GridIsInBounds(g, pos) ==
    /\ pos[1] >= 0
    /\ pos[2] >= 0
    /\ pos[3] >= 0
    /\ pos[1] < g.width
    /\ pos[2] < g.height
    /\ pos[3] < g.depth

\* a lookup that maps every position onto the nearest cell of the grid
GridGetClamped(g, pos) ==
    g.voxels[PosToIndex(Clamp(pos[1], 0, g.width - 1), Clamp(pos[2], 0, g.height - 1),
                        Clamp(pos[3], 0, g.depth - 1), g.width, g.depth) + 1]

\* VoxelWorld::get; Vec::get gives None for an index outside the vector
GridGet(g, pos) ==
    IF ~GridIsInBounds(g, pos) THEN Absent
    ELSE LET idx == PosToIndex(pos[1], pos[2], pos[3], g.width, g.depth)
         IN IF idx + 1 \in DOMAIN g.voxels THEN g.voxels[idx + 1] ELSE Absent

\* VoxelWorld::get_mut followed by an assignment of the whole voxel
GridSet(g, pos, v) ==
    IF ~GridIsInBounds(g, pos) THEN g
    ELSE LET idx == PosToIndex(pos[1], pos[2], pos[3], g.width, g.depth)
         IN IF idx + 1 \in DOMAIN g.voxels
            THEN [g EXCEPT !.voxels[idx + 1] = v] ELSE g

\* VoxelWorld::new
NewGrid(width, height, depth) ==
    [voxels |-> [k \in 1..(width * height * depth) |->
                    IF (k - 1) \div (width * depth) < height \div 2
                    THEN [DefaultVoxel EXCEPT !.voxel_type = "Soil"]
                    ELSE DefaultVoxel],
     width |-> width, height |-> height, depth |-> depth]

\* VoxelWorld::iter_positions: flat_map over y, then over z, then map over x
GridRow(g, y, z) == [i \in 1..g.width |-> VoxelPos(i - 1, y, z)]

RECURSIVE GridLayer(_, _, _)
GridLayer(g, y, z) ==
    IF z >= g.depth THEN <<>> ELSE GridRow(g, y, z) \o GridLayer(g, y, z + 1)

RECURSIVE GridPositionsFrom(_, _)
GridPositionsFrom(g, y) ==
    IF y >= g.height THEN <<>> ELSE GridLayer(g, y, 0) \o GridPositionsFrom(g, y + 1)

GridIterPositions(g) == GridPositionsFrom(g, 0)

\* the world resource of the simulation: the grid of the configured size
WorldGrid(w) ==
    [voxels |-> w, width |-> WORLD_WIDTH, height |-> WORLD_HEIGHT, depth |-> WORLD_DEPTH]

IsInBounds(pos) == GridIsInBounds(WorldGrid(<<>>), pos)

\* the position stored at index k of the voxel vector (k from 0)
IndexToPos(k) ==
    VoxelPos(k % WORLD_WIDTH,
             k \div (WORLD_WIDTH * WORLD_DEPTH),
             (k \div WORLD_WIDTH) % WORLD_DEPTH)

TotalVoxels == WORLD_WIDTH * WORLD_HEIGHT * WORLD_DEPTH

IterPositions == [k \in 1..TotalVoxels |-> IndexToPos(k - 1)]

AllPositions == Range(IterPositions)

IndexOf(pos) == PosToIndex(pos[1], pos[2], pos[3], WORLD_WIDTH, WORLD_DEPTH) + 1

Get(w, pos) == GridGet(WorldGrid(w), pos)

\* get_mut followed by an assignment of the voxel type
SetVoxelType(w, pos, ty, pid) ==
    IF ~IsInBounds(pos) THEN w
    ELSE [w EXCEPT ![IndexOf(pos)].voxel_type = ty, ![IndexOf(pos)].plant_id = pid]

\* a fresh world whose soil stops one row short of the seeding row
NewWorldShallowSoil ==
    [k \in 1..TotalVoxels |->
        IF IndexToPos(k - 1)[2] < WORLD_HEIGHT \div 2 - 1
        THEN [DefaultVoxel EXCEPT !.voxel_type = "Soil"]
        ELSE DefaultVoxel]

\* VoxelWorld::new: Soil in the lower half, Air above
NewWorld ==
    [k \in 1..TotalVoxels |->
        IF IndexToPos(k - 1)[2] < WORLD_HEIGHT \div 2
        THEN [DefaultVoxel EXCEPT !.voxel_type = "Soil"]
        ELSE DefaultVoxel]

\* ------------------------------------------------------------ genetics.rs
GeneNames ==
    <<"growth_rate", "max_height", "leaf_density", "root_depth",
      "branching_frequency", "photosynthesis_efficiency",
      "reproduction_threshold", "mutation_rate", "horizontal_growth_tendency">>

GeneSet == Range(GeneNames)

NewGene(value) == Clamp(value, 0, 1000)

UniformGenome(v) == [n \in GeneSet |-> NewGene(v)]

\* the genomes Genome::random may return here
GenomePool == {UniformGenome(0)}

\* a mutation that does not clamp its result
MutateUnclamped(value, gate, change) ==
    IF gate THEN value + change ELSE value

\* a mutation that applies three times the drawn change
MutateTripled(value, gate, change) ==
    IF gate THEN Clamp(value + 3 * change, 0, 1000) ELSE value

\* a mutation that applies twice the drawn change
MutateDoubled(value, gate, change) ==
    IF gate THEN Clamp(value + 2 * change, 0, 1000) ELSE value

\* Gene::mutate with its two draws: gate (r < MUTATION_RATE) and change
Mutate(value, gate, change) ==
    IF gate THEN Clamp(value + change, 0, 1000) ELSE value

\* draws: [gate : gene -> BOOLEAN, change : gene -> Int, meta : BOOLEAN]
Reproduce(genome, draws) ==
    [n \in GeneSet |->
        IF n = "mutation_rate"
        THEN IF draws.meta
             THEN Mutate(genome[n], draws.gate[n], draws.change[n])
             ELSE genome[n]
        ELSE Mutate(genome[n], draws.gate[n], draws.change[n])]

NoMutationDraws ==
    [gate |-> [n \in GeneSet |-> FALSE], change |-> [n \in GeneSet |-> 0], meta |-> FALSE]

AllUpDraws ==
    [gate |-> [n \in GeneSet |-> TRUE],
     change |-> [n \in GeneSet |-> MUTATION_STRENGTH - 1], meta |-> TRUE]

\* the random draws of one reproduce call that the model explores
DrawPool == {NoMutationDraws, AllUpDraws}

\* a distance that leaves the last gene out of the mean
DistanceEightGenes(a, b) ==
    (SeqSum([i \in 1..(Len(GeneNames) - 1) |-> Abs(a[GeneNames[i]] - b[GeneNames[i]])])
        * 1000) \div 8

\* Genome::distance, in units of 1e-6
Distance(a, b) ==
    (SeqSum([i \in 1..Len(GeneNames) |-> Abs(a[GeneNames[i]] - b[GeneNames[i]])]) * 1000)
        \div 9

GetMaxHeight(g) == (5000 + g["max_height"] * 45) \div 1000
GetLeafDensity(g) == 100 + (g["leaf_density"] * 9) \div 10
GetRootDepth(g) == (1000 + g["root_depth"] * 19) \div 1000
GetBranchingFrequency(g) == 10 + (g["branching_frequency"] * 29) \div 100
GetPhotosynthesisEfficiency(g) == 300 + (g["photosynthesis_efficiency"] * 12) \div 10
GetReproductionThreshold(g) == 20000 + g["reproduction_threshold"] * 180

\* rng.random::<f32>() is in [0, 1): which outcomes of "r < p" exist (p in 0.001)
MayPass(p) == p > 0
MayFail(p) == p < 1000

\* ------------------------------------------------------------ biology.rs
NewPlantStructure(root) ==
    [root_position |-> root, voxel_positions |-> <<root>>,
     leaf_positions |-> <<>>, root_positions |-> <<root>>]

DefaultPlantBiology ==
    [energy |-> STARTING_ENERGY, age |-> 0, is_alive |-> TRUE, total_mass |-> 0]

\* a spawn that stores the parent reference where the species id belongs
SpawnPlantLineageSwapped(root_pos, genome, generation, parent_id, species_id) ==
    LET b == DefaultPlantBiology
        s == NewPlantStructure(root_pos)
    IN [energy |-> b.energy, age |-> b.age, is_alive |-> b.is_alive,
        total_mass |-> b.total_mass,
        root_position |-> s.root_position, voxel_positions |-> s.voxel_positions,
        leaf_positions |-> s.leaf_positions, root_positions |-> s.root_positions,
        genome |-> genome, generation |-> generation, parent_id |-> parent_id,
        species_id |-> parent_id, timer |-> 0, changed |-> TRUE]

\* the components spawn_plant attaches to a new entity; `timer` is the elapsed
\* part of GrowthTimer, `changed` is the change flag of PlantBiology as the
\* cleanup system's Changed<PlantBiology> filter sees it
SpawnPlant(root_pos, genome, generation, parent_id, species_id) ==
    LET b == DefaultPlantBiology
        s == NewPlantStructure(root_pos)
    IN [energy |-> b.energy, age |-> b.age, is_alive |-> b.is_alive,
        total_mass |-> b.total_mass,
        root_position |-> s.root_position, voxel_positions |-> s.voxel_positions,
        leaf_positions |-> s.leaf_positions, root_positions |-> s.root_positions,
        genome |-> genome, generation |-> generation, parent_id |-> parent_id,
        species_id |-> species_id, timer |-> 0, changed |-> TRUE]

\* query iteration order: ascending entity index
PlantIds(ps) == SortedSeq(DOMAIN ps)

\* energy gained from the leaves of one plant in one frame
LeafGain(w, leaves, genome) ==
    SeqSum([i \in 1..Len(leaves) |->
        IF Get(w, leaves[i]) = Absent THEN 0
        ELSE (Get(w, leaves[i]).light_level * GetPhotosynthesisEfficiency(genome) * dt)
                 \div 20000])

\* body of the loop of photosynthesis_system; st = [world, plants]
PhotosynthesizePlant(st, id) ==
    LET p == st.plants[id] IN
    IF ~p.is_alive THEN st
    ELSE [st EXCEPT !.plants[id].energy = @ + LeafGain(st.world, p.leaf_positions, p.genome),
                    !.plants[id].changed = TRUE]

RECURSIVE PhotosynthesisPass(_, _)
PhotosynthesisPass(ids, st) ==
    IF ids = <<>> THEN st
    ELSE PhotosynthesisPass(Tail(ids), PhotosynthesizePlant(st, Head(ids)))

\* a root loop that takes the full rate whatever the cell still holds
RECURSIVE AbsorbRootsUncapped(_, _, _)
AbsorbRootsUncapped(roots, i, acc) ==
    IF i > Len(roots) THEN acc
    ELSE IF Get(acc.world, roots[i]) = Absent THEN AbsorbRootsUncapped(roots, i + 1, acc)
    ELSE LET k == IndexOf(roots[i])
             absorption_rate == ROOT_ABSORPTION_RATE * dt
         IN AbsorbRootsUncapped(roots, i + 1,
                [world |-> [acc.world EXCEPT ![k].nutrients = @ - absorption_rate,
                                             ![k].water = @ - absorption_rate],
                 nutrients |-> acc.nutrients + absorption_rate,
                 water |-> acc.water + absorption_rate])

\* the inner loop of resource_absorption_system over root_positions[i..]
\* acc = [world, nutrients, water]
RECURSIVE AbsorbRoots(_, _, _)
AbsorbRoots(roots, i, acc) ==
    IF i > Len(roots) THEN acc
    ELSE IF Get(acc.world, roots[i]) = Absent THEN AbsorbRoots(roots, i + 1, acc)
    ELSE LET k == IndexOf(roots[i])
             absorption_rate == ROOT_ABSORPTION_RATE * dt
             n == Min(absorption_rate, acc.world[k].nutrients)
             wa == Min(absorption_rate, acc.world[k].water)
         IN AbsorbRoots(roots, i + 1,
                [world |-> [acc.world EXCEPT ![k].nutrients = @ - n, ![k].water = @ - wa],
                 nutrients |-> acc.nutrients + n,
                 water |-> acc.water + wa])

\* an absorption step without the alive check
AbsorbPlantNoSkip(st, id) ==
    LET p == st.plants[id]
        r == AbsorbRoots(p.root_positions, 1, [world |-> st.world, nutrients |-> 0, water |-> 0])
    IN [world |-> r.world,
        plants |-> [st.plants EXCEPT ![id].energy = @ + (r.nutrients + r.water) * 2,
                                     ![id].changed = TRUE]]

\* body of the loop of resource_absorption_system
AbsorbPlant(st, id) ==
    LET p == st.plants[id]
        r == AbsorbRoots(p.root_positions, 1, [world |-> st.world, nutrients |-> 0, water |-> 0])
    IN IF ~p.is_alive THEN st
       ELSE [world |-> r.world,
             plants |-> [st.plants EXCEPT ![id].energy = @ + (r.nutrients + r.water) * 2,
                                          ![id].changed = TRUE]]

RECURSIVE AbsorptionPass(_, _)
AbsorptionPass(ids, st) ==
    IF ids = <<>> THEN st
    ELSE AbsorptionPass(Tail(ids), AbsorbPlant(st, Head(ids)))

\* a maintenance charge at a third of the base rate per voxel
TotalMaintenanceLowRate(p) ==
    Len(p.voxel_positions) * (BASE_MAINTENANCE_COST \div 3) * dt
    + SeqSum([i \in 1..Len(p.voxel_positions) |->
                 Max(p.voxel_positions[i][2] - p.root_position[2], 0) * dt])

\* base maintenance plus the height surcharge of one plant for one frame
TotalMaintenance(p) ==
    Len(p.voxel_positions) * BASE_MAINTENANCE_COST * dt
    + SeqSum([i \in 1..Len(p.voxel_positions) |->
                 Max(p.voxel_positions[i][2] - p.root_position[2], 0) * dt])

\* a maintenance step that drains the energy and leaves the alive flag alone
MaintainPlantNoDeath(p) ==
    IF ~p.is_alive THEN p
    ELSE [p EXCEPT !.energy = @ - TotalMaintenance(p), !.changed = TRUE]

\* a maintenance step that charges dead plants too and recomputes the flag
MaintainPlantRevives(p) ==
    LET e == p.energy - TotalMaintenance(p)
    IN [p EXCEPT !.energy = e, !.is_alive = (p.is_alive = (e > 0)), !.changed = TRUE]

\* body of the loop of maintenance_cost_system
MaintainPlant(p) ==
    IF ~p.is_alive THEN p
    ELSE LET e == p.energy - TotalMaintenance(p)
         IN [p EXCEPT !.energy = e,
                      !.is_alive = IF e <= 0 THEN FALSE ELSE @,
                      !.changed = TRUE]

\* an aging step without the alive check
AgePlantNoCheck(p) == [p EXCEPT !.age = @ + dt, !.changed = TRUE]

\* body of the loop of aging_system
AgePlant(p) ==
    IF p.is_alive THEN [p EXCEPT !.age = @ + dt, !.changed = TRUE] ELSE p

\* ------------------------------------------------------------ growth.rs
\* a target check that looks at the bounds only
CanGrowAtAnyType(pos, w) == Get(w, pos) # Absent

\* can_grow_at: the target is inside the grid and is Air
CanGrowAt(pos, w) ==
    IF Get(w, pos) # Absent THEN Get(w, pos).voxel_type = "Air" ELSE FALSE

CanGrowRootAt(pos, w) ==
    IF Get(w, pos) # Absent THEN Get(w, pos).voxel_type \in {"Soil", "Air"} ELSE FALSE

GrowVoxel(st, id, pos) ==
    [world |-> SetVoxelType(st.world, pos, "PlantMaterial", id),
     plants |-> [st.plants EXCEPT
                    ![id].energy = @ - BASE_GROWTH_COST,
                    ![id].voxel_positions = Append(@, pos),
                    ![id].total_mass = Len(st.plants[id].voxel_positions) + 1,
                    ![id].changed = TRUE]]

LeafOffsets == {<<1, 0, 0>>, <<-1, 0, 0>>, <<0, 1, 0>>, <<0, 0, 1>>, <<0, 0, -1>>}

\* a leaf step that records the leaf whether or not its cell was claimed
AddLeafUnclaimed(st, id, pos) ==
    { LET leaf_pos == VoxelPos(pos[1] + o[1], pos[2] + o[2], pos[3] + o[3])
      IN IF CanGrowAt(leaf_pos, st.world)
         THEN [GrowVoxel(st, id, leaf_pos) EXCEPT
                  !.plants[id].leaf_positions = Append(@, leaf_pos)]
         ELSE [st EXCEPT !.plants[id].leaf_positions = Append(@, leaf_pos)]
      : o \in LeafOffsets }

\* add_leaf: every outcome of the random choice of an offset
AddLeaf(st, id, pos) ==
    { LET leaf_pos == VoxelPos(pos[1] + o[1], pos[2] + o[2], pos[3] + o[3])
      IN IF CanGrowAt(leaf_pos, st.world)
         THEN [GrowVoxel(st, id, leaf_pos) EXCEPT
                  !.plants[id].leaf_positions = Append(@, leaf_pos)]
         ELSE st
      : o \in LeafOffsets }

\* the leaf draw "r < p" after a successful claim
MaybeLeaf(st, id, pos, p) ==
    (IF MayPass(p) THEN AddLeaf(st, id, pos) ELSE {})
    \cup (IF MayFail(p) THEN {st} ELSE {})

TryGrowUpward(st, id, from_pos) ==
    LET new_pos == VoxelPos(from_pos[1], from_pos[2] + 1, from_pos[3])
    IN IF CanGrowAt(new_pos, st.world)
       THEN MaybeLeaf(GrowVoxel(st, id, new_pos), id, new_pos,
                      GetLeafDensity(st.plants[id].genome))
       ELSE {st}

BranchDirections(from_pos) ==
    {VoxelPos(from_pos[1] + 1, from_pos[2], from_pos[3]),
     VoxelPos(from_pos[1] - 1, from_pos[2], from_pos[3]),
     VoxelPos(from_pos[1], from_pos[2], from_pos[3] + 1),
     VoxelPos(from_pos[1], from_pos[2], from_pos[3] - 1)}

TryGrowBranch(st, id, from_pos) ==
    UNION { IF CanGrowAt(new_pos, st.world)
            THEN MaybeLeaf(GrowVoxel(st, id, new_pos), id, new_pos,
                           (GetLeafDensity(st.plants[id].genome) * 15) \div 10)
            ELSE {st}
            : new_pos \in BranchDirections(from_pos) }

\* iter().min_by_key(|p| p.y): the first of the lowest positions
DeepestRoot(roots) ==
    LET i == CHOOSE i \in 1..Len(roots) :
                 /\ \A j \in 1..Len(roots) : roots[i][2] <= roots[j][2]
                 /\ \A j \in 1..(i - 1) : roots[j][2] > roots[i][2]
    IN roots[i]

\* iter().max_by_key(|p| p.y): the last of the highest positions
HighestPos(vs) ==
    LET i == CHOOSE i \in 1..Len(vs) :
                 /\ \A j \in 1..Len(vs) : vs[i][2] >= vs[j][2]
                 /\ \A j \in (i + 1)..Len(vs) : vs[j][2] < vs[i][2]
    IN vs[i]

\* a height that is read off the first position instead of the highest one
CurrentHeightFirst(vs) ==
    IF vs = <<>> THEN 0 ELSE vs[1][2]

\* structure.voxel_positions.iter().map(|p| p.y).max().unwrap_or(0)
CurrentHeight(vs) ==
    IF vs = <<>> THEN 0 ELSE HighestPos(vs)[2]

\* a root attempt that claims its target without looking at the cell
TryGrowRootUnchecked(st, id) ==
    LET p == st.plants[id]
        deepest_root == IF p.root_positions = <<>> THEN p.root_position
                        ELSE DeepestRoot(p.root_positions)
        max_depth == p.root_position[2] - GetRootDepth(p.genome)
        new_pos == VoxelPos(deepest_root[1], deepest_root[2] - 1, deepest_root[3])
    IN IF deepest_root[2] <= max_depth THEN st
       ELSE [GrowVoxel(st, id, new_pos) EXCEPT
                !.plants[id].root_positions = Append(@, new_pos)]

\* a root attempt that ignores the genome's root depth
TryGrowRootNoDepthLimit(st, id) ==
    LET p == st.plants[id]
        deepest_root == IF p.root_positions = <<>> THEN p.root_position
                        ELSE DeepestRoot(p.root_positions)
        new_pos == VoxelPos(deepest_root[1], deepest_root[2] - 1, deepest_root[3])
    IN IF CanGrowRootAt(new_pos, st.world)
       THEN [GrowVoxel(st, id, new_pos) EXCEPT
                !.plants[id].root_positions = Append(@, new_pos)]
       ELSE st

\* try_grow_root
TryGrowRoot(st, id) ==
    LET p == st.plants[id]
        deepest_root == IF p.root_positions = <<>> THEN p.root_position
                        ELSE DeepestRoot(p.root_positions)
        max_depth == p.root_position[2] - GetRootDepth(p.genome)
        new_pos == VoxelPos(deepest_root[1], deepest_root[2] - 1, deepest_root[3])
    IN IF deepest_root[2] <= max_depth THEN st
       ELSE IF CanGrowRootAt(new_pos, st.world)
            THEN [GrowVoxel(st, id, new_pos) EXCEPT
                     !.plants[id].root_positions = Append(@, new_pos)]
            ELSE st

\* body of the loop of plant_growth_system: every outcome of its random draws
GrowPlant(st, id) ==
    LET p == st.plants[id]
        t == p.timer + dt
        st1 == [st EXCEPT !.plants[id].timer = t % GROWTH_INTERVAL]
    IN IF ~p.is_alive THEN {st}
       ELSE IF t < GROWTH_INTERVAL THEN {st1}
       ELSE IF p.energy < BASE_GROWTH_COST THEN {st1}
       ELSE IF CurrentHeight(p.voxel_positions)
                   >= GetMaxHeight(p.genome) + p.root_position[2] THEN {st1}
       ELSE LET shoot ==
                    (IF MayPass(GetBranchingFrequency(p.genome))
                     THEN UNION { TryGrowBranch(st1, id, p.voxel_positions[i])
                                  : i \in 1..Len(p.voxel_positions) }
                     ELSE {})
                    \cup
                    (IF MayFail(GetBranchingFrequency(p.genome))
                     THEN TryGrowUpward(st1, id, HighestPos(p.voxel_positions))
                     ELSE {})
            IN shoot \cup { TryGrowRoot(s, id) : s \in shoot }

RECURSIVE GrowthPass(_, _)
GrowthPass(ids, sts) ==
    IF ids = <<>> THEN sts
    ELSE GrowthPass(Tail(ids), UNION { GrowPlant(st, Head(ids)) : st \in sts })

\* ------------------------------------------------------------ reproduction.rs
NoSeed == <<>>

\* a seed check that does not look at the cell above
IsValidSeedPositionSoilOnly(pos, w) ==
    IF Get(w, pos) # Absent THEN Get(w, pos).voxel_type = "Soil" ELSE FALSE

\* is_valid_seed_position
IsValidSeedPosition(pos, w) ==
    IF Get(w, pos) # Absent
    THEN IF Get(w, pos).voxel_type # "Soil" THEN FALSE
         ELSE IF Get(w, VoxelPos(pos[1], pos[2] + 1, pos[3])) # Absent
              THEN Get(w, VoxelPos(pos[1], pos[2] + 1, pos[3])).voxel_type = "Air"
              ELSE FALSE
    ELSE FALSE

SeedCandidates(parent_pos) ==
    { VoxelPos(parent_pos[1] + ox, parent_pos[2], parent_pos[3] + oz) :
        ox \in (0 - SEED_DISPERSAL_RANGE)..SEED_DISPERSAL_RANGE,
        oz \in (0 - SEED_DISPERSAL_RANGE)..SEED_DISPERSAL_RANGE }

\* the number of candidates find_seed_position draws
SEED_ATTEMPTS == 20

\* the loop of find_seed_position with `left` draws to go, `examined` done:
\* the draw is a valid candidate, which is returned, or an invalid one
RECURSIVE SeedSearch(_, _, _, _)
SeedSearch(valid, invalid, left, examined) ==
    IF left = 0 THEN {[pos |-> NoSeed, examined |-> examined]}
    ELSE {[pos |-> c, examined |-> examined + 1] : c \in valid}
         \cup (IF invalid # {} THEN SeedSearch(valid, invalid, left - 1, examined + 1)
               ELSE {})

\* the outcomes [pos, examined] of find_seed_position
SeedOutcomes(parent_pos, w) ==
    LET valid == { c \in SeedCandidates(parent_pos) : IsValidSeedPosition(c, w) }
    IN SeedSearch(valid, SeedCandidates(parent_pos) \ valid, SEED_ATTEMPTS, 0)

\* find_seed_position: every result its random candidates can give.  The first
\* valid candidate drawn is returned; None needs every draw to be invalid.
FindSeedPosition(parent_pos, w) ==
    { r.pos : r \in SeedOutcomes(parent_pos, w) }

\* a classification that hands out the counter's value without advancing it
ClassifySpeciesNoAdvance(genetic_distance, parent_species_id, counter) ==
    IF genetic_distance > SPECIES_DIVERGENCE_THRESHOLD
    THEN [species_id |-> counter, counter |-> counter]
    ELSE [species_id |-> parent_species_id, counter |-> counter]

\* a classification that also splits off a species at the threshold itself
ClassifySpeciesInclusive(genetic_distance, parent_species_id, counter) ==
    IF genetic_distance >= SPECIES_DIVERGENCE_THRESHOLD
    THEN [species_id |-> counter, counter |-> counter + 1]
    ELSE [species_id |-> parent_species_id, counter |-> counter]

\* offspring_species_id and the counter after it
ClassifySpecies(genetic_distance, parent_species_id, counter) ==
    IF genetic_distance > SPECIES_DIVERGENCE_THRESHOLD
    THEN [species_id |-> counter, counter |-> counter + 1]
    ELSE [species_id |-> parent_species_id, counter |-> counter]

\* the seed tuple pushed for an offspring, and the counter after it
Offspring(p, id, seed_pos, draws, counter) ==
    LET offspring_genome == Reproduce(p.genome, draws)
        genetic_distance == Distance(p.genome, offspring_genome)
        c == ClassifySpecies(genetic_distance, p.species_id, counter)
    IN [seed |-> [pos |-> seed_pos, genome |-> offspring_genome,
                  generation |-> p.generation + 1, parent_id |-> id,
                  species_id |-> c.species_id],
        counter |-> c.counter]

\* a scan step that charges the cost only when a seed site was found
ReproducePlantPaysOnSuccess(st, id, w) ==
    LET p == st.plants[id]
        st1 == [st EXCEPT !.plants[id].energy = @ - REPRODUCTION_ENERGY_COST,
                          !.plants[id].changed = TRUE]
        room == Cardinality(DOMAIN st.plants) + Len(st.seeds) < MaxPlants
    IN IF ~p.is_alive THEN {st}
       ELSE IF p.energy >= GetReproductionThreshold(p.genome)
            THEN UNION {
                    IF seed_pos = NoSeed THEN {st}
                    ELSE IF ~room THEN {}
                    ELSE { LET o == Offspring(p, id, seed_pos, d, st.counter)
                           IN [st1 EXCEPT !.counter = o.counter,
                                          !.seeds = Append(@, o.seed)]
                           : d \in DrawPool }
                    : seed_pos \in FindSeedPosition(p.root_position, w) }
            ELSE {st}

\* a scan step that instantiates the offspring at once, inside the scan
ReproducePlantSpawnsAtOnce(st, id, w) ==
    LET p == st.plants[id]
        st1 == [st EXCEPT !.plants[id].energy = @ - REPRODUCTION_ENERGY_COST,
                          !.plants[id].changed = TRUE]
        free == (1..MaxPlants) \ DOMAIN st.plants
    IN IF ~p.is_alive THEN {st}
       ELSE IF p.energy >= GetReproductionThreshold(p.genome)
            THEN UNION {
                    IF seed_pos = NoSeed THEN {st1}
                    ELSE IF free = {} THEN {}
                    ELSE { LET o == Offspring(p, id, seed_pos, d, st.counter)
                               e == CHOOSE k \in free : TRUE
                           IN [st1 EXCEPT
                                 !.counter = o.counter,
                                 !.plants = [k \in DOMAIN st.plants \cup {e} |->
                                               IF k = e
                                               THEN SpawnPlant(o.seed.pos, o.seed.genome,
                                                               o.seed.generation,
                                                               o.seed.parent_id,
                                                               o.seed.species_id)
                                               ELSE st1.plants[k]]]
                           : d \in DrawPool }
                    : seed_pos \in FindSeedPosition(p.root_position, w) }
            ELSE {st}

\* body of the scan loop of reproduction_system: every outcome of its draws.
\* st = [plants, counter, seeds]; w is the world the system reads.
\* A seed is accepted only while an entity index is left for it (MaxPlants).
ReproducePlant(st, id, w) ==
    LET p == st.plants[id]
        st1 == [st EXCEPT !.plants[id].energy = @ - REPRODUCTION_ENERGY_COST,
                          !.plants[id].changed = TRUE]
        room == Cardinality(DOMAIN st.plants) + Len(st.seeds) < MaxPlants
    IN IF ~p.is_alive THEN {st}
       ELSE IF p.energy >= GetReproductionThreshold(p.genome)
            THEN UNION {
                    IF seed_pos = NoSeed THEN {st1}
                    ELSE IF ~room THEN {}
                    ELSE { LET o == Offspring(p, id, seed_pos, d, st.counter)
                           IN [st1 EXCEPT !.counter = o.counter,
                                          !.seeds = Append(@, o.seed)]
                           : d \in DrawPool }
                    : seed_pos \in FindSeedPosition(p.root_position, w) }
            ELSE {st}

RECURSIVE ReproductionScan(_, _, _)
ReproductionScan(ids, sts, w) ==
    IF ids = <<>> THEN sts
    ELSE ReproductionScan(Tail(ids),
                          UNION { ReproducePlant(st, Head(ids), w) : st \in sts }, w)

\* the spawn loop: commands.spawn reserves an unused entity index for each seed
RECURSIVE SpawnSeeds(_, _)
SpawnSeeds(seeds, free) ==
    IF seeds = <<>> THEN {<<>>}
    ELSE UNION { { <<[id |-> e, seed |-> Head(seeds)]>> \o rest
                   : rest \in SpawnSeeds(Tail(seeds), free \ {e}) }
                 : e \in free }

\* a decomposition that gives the cells above the soil surface back to the air
RECURSIVE RevertToSoilOrAir(_, _, _)
RevertToSoilOrAir(w, positions, i) ==
    IF i > Len(positions) THEN w
    ELSE RevertToSoilOrAir(
             SetVoxelType(w, positions[i],
                          IF positions[i][2] < WORLD_HEIGHT \div 2 THEN "Soil" ELSE "Air", 0),
             positions, i + 1)

\* cleanup_dead_plants_system on one entity matched by Changed<PlantBiology>
RECURSIVE RevertToSoil(_, _, _)
RevertToSoil(w, positions, i) ==
    IF i > Len(positions) THEN w
    ELSE RevertToSoil(SetVoxelType(w, positions[i], "Soil", 0), positions, i + 1)

\* a cleanup step that leaves every plant alone
CleanupSkipsDead(acc, ps, id) == acc

\* body of the loop of cleanup_dead_plants_system; acc = [world, despawn]
CleanupPlant(acc, ps, id) ==
    IF ps[id].changed /\ ~ps[id].is_alive
    THEN [world |-> RevertToSoil(acc.world, ps[id].voxel_positions, 1),
          despawn |-> acc.despawn \cup {id}]
    ELSE acc

RECURSIVE CleanupPass(_, _, _)
CleanupPass(ids, acc, ps) ==
    IF ids = <<>> THEN acc
    ELSE CleanupPass(Tail(ids), CleanupPlant(acc, ps, Head(ids)), ps)

\* ------------------------------------------------------------ environment.rs
\* an attenuation that treats soil like plant material
AttenuateSoilAsPlant(light, voxel_type) ==
    IF voxel_type \in {"PlantMaterial", "Soil"} THEN (light * 6) \div 10 ELSE light

\* the match on voxel_type in update_light_system
Attenuate(light, voxel_type) ==
    IF voxel_type = "PlantMaterial" THEN (light * 6) \div 10
    ELSE IF voxel_type = "Soil" THEN light \div 10
    ELSE light

\* the running light value when the scan of column (x, z) reaches height y
RECURSIVE LightAt(_, _, _, _)
LightAt(w, x, y, z) ==
    IF y = WORLD_HEIGHT - 1 THEN SUNLIGHT_MAX
    ELSE Attenuate(LightAt(w, x, y + 1, z), Get(w, VoxelPos(x, y + 1, z)).voxel_type)

\* a light update that averages the new level with the level already stored
UpdateLightBlend(w) ==
    [k \in DOMAIN w |->
        [w[k] EXCEPT !.light_level =
            (@ + LightAt(w, IndexToPos(k - 1)[1], IndexToPos(k - 1)[2],
                         IndexToPos(k - 1)[3])) \div 2]]

\* update_light_system: every column, from the top cell down
UpdateLight(w) ==
    [k \in 1..TotalVoxels |->
        [w[k] EXCEPT !.light_level =
            LightAt(w, IndexToPos(k - 1)[1], IndexToPos(k - 1)[2], IndexToPos(k - 1)[3])]]

\* a regeneration that does not look at the voxel type
RegenerateResourcesAnyType(w) ==
    [k \in 1..TotalVoxels |->
        [w[k] EXCEPT !.nutrients = Min(@ + NUTRIENT_REGEN_RATE, SOIL_NUTRIENT_MAX),
                     !.water = Min(@ + WATER_REGEN_RATE, SOIL_WATER_MAX)]]

\* regenerate_resources_system
RegenerateResources(w) ==
    [k \in 1..TotalVoxels |->
        IF w[k].voxel_type = "Soil"
        THEN [w[k] EXCEPT !.nutrients = Min(@ + NUTRIENT_REGEN_RATE, SOIL_NUTRIENT_MAX),
                          !.water = Min(@ + WATER_REGEN_RATE, SOIL_WATER_MAX)]
        ELSE w[k]]

\* ------------------------------------------------------------ collector.rs
\* a clustering that also joins a genome at exactly the threshold distance
RECURSIVE EstimateSpeciesCountInclusive(_, _)
EstimateSpeciesCountInclusive(genomes, species) ==
    IF genomes = <<>> THEN Len(species)
    ELSE IF \E i \in 1..Len(species) :
                Distance(Head(genomes), species[i]) <= SPECIES_CLUSTER_THRESHOLD
         THEN EstimateSpeciesCountInclusive(Tail(genomes), species)
         ELSE EstimateSpeciesCountInclusive(Tail(genomes), Append(species, Head(genomes)))

RECURSIVE EstimateSpeciesCount(_, _)
\* genomes: the alive genomes in iteration order; species: representatives so far
EstimateSpeciesCount(genomes, species) ==
    IF genomes = <<>> THEN Len(species)
    ELSE IF \E i \in 1..Len(species) :
                Distance(Head(genomes), species[i]) < SPECIES_CLUSTER_THRESHOLD
         THEN EstimateSpeciesCount(Tail(genomes), species)
         ELSE EstimateSpeciesCount(Tail(genomes), Append(species, Head(genomes)))

AliveIds(ps) == SelectSeq(PlantIds(ps), LAMBDA id : ps[id].is_alive)

\* the snapshot pushed by collect_statistics_system (the averages, which are
\* quotients of the totals by the population, are not carried)
StatsSnapshot(ps) ==
    LET ids == AliveIds(ps) IN
    [timestamp |-> elapsed,
     population |-> Len(ids),
     species_count |-> EstimateSpeciesCount([i \in 1..Len(ids) |-> ps[ids[i]].genome], <<>>),
     total_biomass |-> SeqSum([i \in 1..Len(ids) |-> ps[ids[i]].total_mass])]

PushSnapshot(history, snap) ==
    LET h == Append(history, snap)
    IN IF Len(h) > STATS_HISTORY_SIZE THEN Tail(h) ELSE h

\* ------------------------------------------------------------ main.rs
EnvSystems == {"update_day_night", "update_light", "regenerate_resources"}
PlantSystems == {"plant_growth", "photosynthesis", "resource_absorption",
                 "maintenance_cost", "aging", "reproduction", "cleanup_dead_plants"}
Systems == EnvSystems \cup PlantSystems \cup {"collect_statistics", "pause"}

\* the steps of one frame: the systems, then the end of the schedule
Steps == Systems \cup {"apply_deferred"}

GroupOf(s) == IF s \in EnvSystems THEN "env" ELSE "plant"

\* the systems as the add_systems calls list them
RegistrationOrder ==
    <<"update_day_night", "update_light", "regenerate_resources",
      "plant_growth", "photosynthesis", "resource_absorption", "maintenance_cost",
      "aging", "reproduction", "cleanup_dead_plants",
      "collect_statistics", "pause">>

\* an order in which cleanup runs before the plants are charged maintenance
CleanupFirstOrder ==
    <<"pause", "collect_statistics", "cleanup_dead_plants", "reproduction", "aging",
      "plant_growth", "maintenance_cost", "resource_absorption", "photosynthesis",
      "regenerate_resources", "update_light", "update_day_night">>

\* an order in which maintenance directly follows growth and precedes cleanup
MaintenanceEarlyOrder ==
    <<"plant_growth", "maintenance_cost", "cleanup_dead_plants", "reproduction",
      "photosynthesis", "resource_absorption", "aging", "collect_statistics", "pause",
      "regenerate_resources", "update_light", "update_day_night">>

\* the orders of one frame that the model explores
Schedules == {RegistrationOrder, CleanupFirstOrder, MaintenanceEarlyOrder}

\* s is the next system of this frame's order
NextUp(s) ==
    /\ sched[s] = "ready"
    /\ \A i \in 1..Len(order) :
          order[i] = s => \A j \in 1..(i - 1) : sched[order[j]] # "ready"

\* simulation_running, evaluated once per frame for each gated tuple
SimulationRunning == ~paused

Gate(g) ==
    IF cond[g] = "unset" THEN (IF SimulationRunning THEN "run" ELSE "skip") ELSE cond[g]

\* system s of a gated tuple is picked and its run condition holds
Invoked(s) ==
    /\ NextUp(s)
    /\ Gate(GroupOf(s)) = "run"
    /\ sched' = [sched EXCEPT ![s] = "ran"]
    /\ cond' = [cond EXCEPT ![GroupOf(s)] = "run"]

\* a system of a gated tuple is picked while the run condition is false
SkipSystem ==
    \E s \in EnvSystems \cup PlantSystems :
        /\ NextUp(s)
        /\ Gate(GroupOf(s)) = "skip"
        /\ sched' = [sched EXCEPT ![s] = "skipped"]
        /\ cond' = [cond EXCEPT ![GroupOf(s)] = "skip"]
        /\ UNCHANGED <<world, plants, species_counter, seeds_to_spawn, despawn_queue,
                       time_of_day, snapshots, update_timer, paused, key_p, dt,
                       elapsed, order, frame, sim_tick, died_at, probe>>

UpdateDayNightSystem ==
    /\ Invoked("update_day_night")
    /\ time_of_day' = (time_of_day + dt) % DAY_LENGTH
    /\ UNCHANGED <<world, plants, species_counter, seeds_to_spawn, despawn_queue,
                   snapshots, update_timer, paused, key_p, dt, elapsed, order, frame,
                   sim_tick, died_at, probe>>

UpdateLightSystem ==
    /\ Invoked("update_light")
    /\ world' = UpdateLight(world)
    /\ UNCHANGED <<plants, species_counter, seeds_to_spawn, despawn_queue, time_of_day,
                   snapshots, update_timer, paused, key_p, dt, elapsed, order, frame,
                   sim_tick, died_at, probe>>

RegenerateResourcesSystem ==
    /\ Invoked("regenerate_resources")
    /\ world' = RegenerateResources(world)
    /\ UNCHANGED <<plants, species_counter, seeds_to_spawn, despawn_queue, time_of_day,
                   snapshots, update_timer, paused, key_p, dt, elapsed, order, frame,
                   sim_tick, died_at, probe>>

PlantGrowthSystem ==
    /\ Invoked("plant_growth")
    /\ \E st \in GrowthPass(PlantIds(plants), {[world |-> world, plants |-> plants]}) :
          /\ world' = st.world
          /\ plants' = st.plants
    /\ UNCHANGED <<species_counter, seeds_to_spawn, despawn_queue, time_of_day,
                   snapshots, update_timer, paused, key_p, dt, elapsed, order, frame,
                   sim_tick, died_at, probe>>

PhotosynthesisSystem ==
    /\ Invoked("photosynthesis")
    /\ plants' = PhotosynthesisPass(PlantIds(plants),
                                    [world |-> world, plants |-> plants]).plants
    /\ UNCHANGED <<world, species_counter, seeds_to_spawn, despawn_queue, time_of_day,
                   snapshots, update_timer, paused, key_p, dt, elapsed, order, frame,
                   sim_tick, died_at, probe>>

ResourceAbsorptionSystem ==
    /\ Invoked("resource_absorption")
    /\ LET st == AbsorptionPass(PlantIds(plants), [world |-> world, plants |-> plants])
       IN /\ world' = st.world
          /\ plants' = st.plants
    /\ UNCHANGED <<species_counter, seeds_to_spawn, despawn_queue, time_of_day,
                   snapshots, update_timer, paused, key_p, dt, elapsed, order, frame,
                   sim_tick, died_at, probe>>

MaintenanceCostSystem ==
    /\ Invoked("maintenance_cost")
    /\ plants' = [id \in DOMAIN plants |-> MaintainPlant(plants[id])]
    /\ died_at' = [id \in 1..MaxPlants |->
                      IF id \in DOMAIN plants /\ plants[id].is_alive /\ ~plants'[id].is_alive
                      THEN sim_tick ELSE died_at[id]]
    /\ UNCHANGED <<world, species_counter, seeds_to_spawn, despawn_queue, time_of_day,
                   snapshots, update_timer, paused, key_p, dt, elapsed, order, frame, sim_tick, probe>>

AgingSystem ==
    /\ Invoked("aging")
    /\ plants' = [id \in DOMAIN plants |-> AgePlant(plants[id])]
    /\ UNCHANGED <<world, species_counter, seeds_to_spawn, despawn_queue, time_of_day,
                   snapshots, update_timer, paused, key_p, dt, elapsed, order, frame,
                   sim_tick, died_at, probe>>

ReproductionSystem ==
    /\ Invoked("reproduction")
    /\ \E st \in ReproductionScan(PlantIds(plants),
                    {[plants |-> plants, counter |-> species_counter, seeds |-> <<>>]},
                    world) :
          /\ plants' = st.plants
          /\ species_counter' = st.counter
          /\ \E spawned \in SpawnSeeds(st.seeds, (1..MaxPlants) \ DOMAIN plants) :
                seeds_to_spawn' = seeds_to_spawn \o spawned
    /\ UNCHANGED <<world, despawn_queue, time_of_day, snapshots, update_timer, paused,
                   key_p, dt, elapsed, order, frame, sim_tick, died_at, probe>>

CleanupDeadPlantsSystem ==
    /\ Invoked("cleanup_dead_plants")
    /\ LET acc == CleanupPass(PlantIds(plants),
                              [world |-> world, despawn |-> despawn_queue], plants)
       IN /\ world' = acc.world
          /\ despawn_queue' = acc.despawn
    /\ plants' = [id \in DOMAIN plants |-> [plants[id] EXCEPT !.changed = FALSE]]
    /\ UNCHANGED <<species_counter, seeds_to_spawn, time_of_day, snapshots, update_timer,
                   paused, key_p, dt, elapsed, order, frame, sim_tick, died_at, probe>>

CollectStatisticsSystem ==
    /\ NextUp("collect_statistics")
    /\ sched' = [sched EXCEPT !["collect_statistics"] = "ran"]
    /\ update_timer' = (update_timer + dt) % STATS_UPDATE_INTERVAL
    /\ snapshots' = IF update_timer + dt < STATS_UPDATE_INTERVAL THEN snapshots
                    ELSE IF Len(AliveIds(plants)) = 0 THEN snapshots
                    ELSE PushSnapshot(snapshots, StatsSnapshot(plants))
    /\ UNCHANGED <<world, plants, species_counter, seeds_to_spawn, despawn_queue,
                   time_of_day, paused, key_p, dt, elapsed, order, cond, frame, sim_tick, died_at, probe>>

PauseSystem ==
    /\ NextUp("pause")
    /\ sched' = [sched EXCEPT !["pause"] = "ran"]
    /\ paused' = IF key_p THEN ~paused ELSE paused
    /\ UNCHANGED <<world, plants, species_counter, seeds_to_spawn, despawn_queue,
                   time_of_day, snapshots, update_timer, key_p, dt, elapsed, order, cond,
                   frame, sim_tick, died_at, probe>>

FrameDone == \A s \in Systems : sched[s] # "ready"

\* end of the Update schedule: the deferred spawn and despawn commands are applied
ApplyDeferred ==
    /\ FrameDone
    /\ sched["apply_deferred"] = "ready"
    /\ sched' = [sched EXCEPT !["apply_deferred"] = "ran"]
    /\ LET spawned == {seeds_to_spawn[i].id : i \in 1..Len(seeds_to_spawn)}
           seedOf(id) == (CHOOSE i \in 1..Len(seeds_to_spawn) : seeds_to_spawn[i].id = id)
       IN /\ plants' = [id \in (DOMAIN plants \ despawn_queue) \cup spawned |->
                           IF id \in spawned
                           THEN LET sd == seeds_to_spawn[seedOf(id)].seed
                                IN SpawnPlant(sd.pos, sd.genome, sd.generation,
                                              sd.parent_id, sd.species_id)
                           ELSE plants[id]]
          /\ died_at' = [id \in 1..MaxPlants |->
                            IF id \in DOMAIN plants \ despawn_queue THEN died_at[id] ELSE 0]
    /\ seeds_to_spawn' = <<>>
    /\ despawn_queue' = {}
    /\ sim_tick' = IF cond["plant"] = "run" THEN sim_tick + 1 ELSE sim_tick
    /\ UNCHANGED <<world, species_counter, time_of_day, snapshots, update_timer, paused,
                   key_p, dt, elapsed, order, cond, frame, probe>>

\* the next frame starts: the clock and the keyboard state are updated
NextFrame ==
    /\ sched["apply_deferred"] = "ran"
    /\ frame < MaxTicks
    /\ sched' = [s \in Steps |-> "ready"]
    /\ cond' = [g \in {"env", "plant"} |-> "unset"]
    /\ frame' = frame + 1
    /\ dt' \in DtSet
    /\ key_p' \in BOOLEAN
    /\ order' \in Schedules
    /\ elapsed' = elapsed + dt'
    /\ UNCHANGED <<world, plants, species_counter, seeds_to_spawn, despawn_queue,
                   time_of_day, snapshots, update_timer, paused, sim_tick, died_at, probe>>

\* spawn_initial_plants on the new world: entity i carries species id i - 1
Init ==
    /\ world = NewWorld
    /\ \E xs \in [1..INITIAL_SEED_COUNT -> 0..(WORLD_WIDTH - 1)],
          zs \in [1..INITIAL_SEED_COUNT -> 0..(WORLD_DEPTH - 1)],
          gs \in [1..INITIAL_SEED_COUNT -> GenomePool] :
          plants = [id \in { i \in 1..INITIAL_SEED_COUNT :
                               Get(NewWorld, VoxelPos(xs[i], WORLD_HEIGHT \div 2 - 1, zs[i]))
                                   .voxel_type = "Soil" } |->
                      SpawnPlant(VoxelPos(xs[id], WORLD_HEIGHT \div 2 - 1, zs[id]),
                                 gs[id], 0, 0, id - 1)]
    /\ species_counter = INITIAL_SEED_COUNT
    /\ seeds_to_spawn = <<>>
    /\ despawn_queue = {}
    /\ time_of_day = DAY_LENGTH \div 2
    /\ snapshots = <<>>
    /\ update_timer = 0
    /\ paused = FALSE
    /\ key_p \in BOOLEAN
    /\ dt \in DtSet
    /\ elapsed = dt
    /\ order \in Schedules
    /\ sched = [s \in Steps |-> "ready"]
    /\ cond = [g \in {"env", "plant"} |-> "unset"]
    /\ frame = 1
    /\ sim_tick = 0
    /\ died_at = [id \in 1..MaxPlants |-> 0]
    /\ probe = [kind |-> "none"]

Next ==
    \/ UpdateDayNightSystem
    \/ UpdateLightSystem
    \/ RegenerateResourcesSystem
    \/ PlantGrowthSystem
    \/ PhotosynthesisSystem
    \/ ResourceAbsorptionSystem
    \/ MaintenanceCostSystem
    \/ AgingSystem
    \/ ReproductionSystem
    \/ CleanupDeadPlantsSystem
    \/ CollectStatisticsSystem
    \/ PauseSystem
    \/ SkipSystem
    \/ ApplyDeferred
    \/ NextFrame

Spec == Init /\ [][Next]_vars

\* ------------------------------------------ function-level specifications
\* The specifications below start from Idle, a world without plants, and apply
\* single functions of the program to inputs held in `probe`.
Idle ==
    /\ world = NewWorld
    /\ plants = [id \in {} |-> 0]
    /\ species_counter = INITIAL_SEED_COUNT
    /\ seeds_to_spawn = <<>>
    /\ despawn_queue = {}
    /\ time_of_day = DAY_LENGTH \div 2
    /\ snapshots = <<>>
    /\ update_timer = 0
    /\ paused = FALSE
    /\ key_p = FALSE
    /\ dt = 1
    /\ elapsed = 1
    /\ order = RegistrationOrder
    /\ sched = [s \in Steps |-> "ready"]
    /\ cond = [g \in {"env", "plant"} |-> "unset"]
    /\ frame = 1
    /\ sim_tick = 0
    /\ died_at = [id \in 1..MaxPlants |-> 0]

StayIdle ==
    UNCHANGED <<world, plants, species_counter, seeds_to_spawn, despawn_queue,
                time_of_day, snapshots, update_timer, paused, key_p, dt, elapsed,
                order, sched, cond, frame, sim_tick, died_at>>

\* --- genetics: Gene::new, Gene::mutate and Genome::reproduce, repeated
\* probe.op is the last call made and probe.draws the draws reproduce was given
MaxGenerations == 3

\* the values handed to Gene::new
GeneInputs == {0 - 500, 0, 950, 1000, 1500}

\* (r - 0.5) * MUTATION_STRENGTH * 2.0 for r in [0, 1): the two extremes
ChangeSet == {0 - MUTATION_STRENGTH, MUTATION_STRENGTH - 1}

\* the draws of one reproduce call: which genes pass the gate, one change, meta
GeneDraws ==
    { [gate |-> [n \in GeneSet |-> n \in gated],
       change |-> [n \in GeneSet |-> c], meta |-> m] :
        gated \in {GeneSet, {"max_height"}, {"mutation_rate"}},
        c \in ChangeSet, m \in BOOLEAN }

GeneInit ==
    /\ Idle
    /\ \E v \in GeneInputs :
          probe = [kind |-> "gene", genome |-> UniformGenome(v), steps |-> 0,
                   op |-> "new", draws |-> NoMutationDraws]

\* child = parent.reproduce(rng)
GeneReproduce ==
    /\ probe.steps < MaxGenerations
    /\ \E draws \in GeneDraws :
          probe' = [probe EXCEPT !.genome = Reproduce(@, draws), !.steps = @ + 1,
                                 !.op = "reproduce", !.draws = draws]
    /\ StayIdle

\* gene.mutate(rng) on one gene
GeneMutate ==
    /\ probe.steps < MaxGenerations
    /\ \E n \in GeneSet, gate \in BOOLEAN, c \in ChangeSet :
          probe' = [probe EXCEPT !.genome[n] = Mutate(@, gate, c), !.steps = @ + 1,
                                 !.op = "mutate", !.draws = NoMutationDraws]
    /\ StayIdle

GeneNext == GeneReproduce \/ GeneMutate

GeneSpec == GeneInit /\ [][GeneNext]_vars

\* --- soil resources: regeneration and absorption passes in any interleaving
MaxSoilSteps == 4

\* frame deltas, the zero delta and a long frame included
SoilDts == {0, 1, 2, 40}

\* nutrient and water levels of the shared root cell when the passes start
SoilLevels == {0, 3, SOIL_NUTRIENT_MAX - 1, SOIL_NUTRIENT_MAX}

SoilRoot == VoxelPos(0, WORLD_HEIGHT \div 2 - 1, 0)

\* two plants rooted in the same cell, whose soil holds the drawn levels
SoilInit ==
    /\ \E n \in SoilLevels, wa \in SoilLevels :
          world = [NewWorld EXCEPT ![IndexOf(SoilRoot)].nutrients = n,
                                   ![IndexOf(SoilRoot)].water = wa]
    /\ plants = [id \in 1..2 |-> SpawnPlant(SoilRoot, UniformGenome(0), 0, 0, id - 1)]
    /\ species_counter = INITIAL_SEED_COUNT
    /\ seeds_to_spawn = <<>>
    /\ despawn_queue = {}
    /\ time_of_day = DAY_LENGTH \div 2
    /\ snapshots = <<>>
    /\ update_timer = 0
    /\ paused = FALSE
    /\ key_p = FALSE
    /\ dt \in SoilDts
    /\ elapsed = dt
    /\ order = RegistrationOrder
    /\ sched = [s \in Steps |-> "ready"]
    /\ cond = [g \in {"env", "plant"} |-> "unset"]
    /\ frame = 1
    /\ sim_tick = 0
    /\ died_at = [id \in 1..MaxPlants |-> 0]
    /\ probe = [kind |-> "soil", steps |-> 0, last |-> "none"]

\* resource_absorption_system with the delta of this frame; the next delta is drawn
SoilAbsorb ==
    /\ probe.steps < MaxSoilSteps
    /\ LET r == AbsorptionPass(PlantIds(plants), [world |-> world, plants |-> plants])
       IN world' = r.world /\ plants' = r.plants
    /\ dt' \in SoilDts
    /\ probe' = [probe EXCEPT !.steps = @ + 1, !.last = "absorb"]
    /\ UNCHANGED <<species_counter, seeds_to_spawn, despawn_queue, time_of_day, snapshots,
                   update_timer, paused, key_p, elapsed, order, sched, cond, frame,
                   sim_tick, died_at>>

\* regenerate_resources_system
SoilRegenerate ==
    /\ probe.steps < MaxSoilSteps
    /\ world' = RegenerateResources(world)
    /\ probe' = [probe EXCEPT !.steps = @ + 1, !.last = "regenerate"]
    /\ UNCHANGED <<plants, species_counter, seeds_to_spawn, despawn_queue, time_of_day,
                   snapshots, update_timer, paused, key_p, dt, elapsed, order, sched, cond,
                   frame, sim_tick, died_at>>

SoilNext == SoilAbsorb \/ SoilRegenerate

SoilSpec == SoilInit /\ [][SoilNext]_vars

\* --- voxel grid: grids of every small size, written through get_mut
MaxDim == 3

MaxGridWrites == 2

GridDims == 1..MaxDim

\* the positions asked of a grid: one step outside the largest grid on every side
GridProbes == {VoxelPos(x, y, z) : x \in (0 - 1)..MaxDim, y \in (0 - 1)..MaxDim,
                                   z \in (0 - 1)..MaxDim}

\* the voxels written: plant material of entity 7, and Air
GridValues ==
    {[DefaultVoxel EXCEPT !.voxel_type = "PlantMaterial", !.plant_id = 7], DefaultVoxel}

GridInit ==
    /\ Idle
    /\ \E width \in GridDims, height \in GridDims, depth \in GridDims :
          probe = [kind |-> "grid", grid |-> NewGrid(width, height, depth),
                   steps |-> 0, missed |-> FALSE]

\* if let Some(voxel) = world.get_mut(&pos) { *voxel = v }
GridWrite ==
    /\ probe.steps < MaxGridWrites
    /\ \E pos \in GridProbes, v \in GridValues :
          probe' = [probe EXCEPT !.grid = GridSet(@, pos, v),
                                 !.steps = @ + 1,
                                 !.missed = ~GridIsInBounds(probe.grid, pos)]
    /\ StayIdle

GridSpec == GridInit /\ [][GridWrite]_vars

\* --- a plant near its height limit: the schedule started from a plant whose
\* stem already reaches, or is one cell short of, root.y + max height
TallRoot == VoxelPos(0, WORLD_HEIGHT \div 2 - 1, 0)

TallLimit == TallRoot[2] + GetMaxHeight(UniformGenome(0))

\* the height of the top of the stem
TallTops == {TallLimit - 1, TallLimit}

\* the energy the plant is left with
TallEnergies == {BASE_GROWTH_COST - 1, BASE_GROWTH_COST, 3 * BASE_GROWTH_COST}

\* the root and the stem cells above it, in the order try_grow_upward appended them
TallStem(top) ==
    [i \in 1..(top - TallRoot[2] + 1) |-> VoxelPos(TallRoot[1], TallRoot[2] + i - 1, TallRoot[3])]

\* the grid after grow_voxel has claimed the stem cells and the light was updated
TallWorld(top) ==
    UpdateLight([k \in 1..TotalVoxels |->
                    IF /\ IndexToPos(k - 1) \in Range(TallStem(top))
                       /\ IndexToPos(k - 1) # TallRoot
                    THEN [NewWorld[k] EXCEPT !.voxel_type = "PlantMaterial", !.plant_id = 1]
                    ELSE NewWorld[k]])

TallInit ==
    /\ \E top \in TallTops, e \in TallEnergies :
          /\ world = TallWorld(top)
          /\ plants = [id \in {1} |->
                          [SpawnPlant(TallRoot, UniformGenome(0), 0, 0, 0) EXCEPT
                              !.energy = e,
                              !.age = 4 * GROWTH_INTERVAL,
                              !.voxel_positions = TallStem(top),
                              !.total_mass = Len(TallStem(top))]]
    /\ species_counter = INITIAL_SEED_COUNT
    /\ seeds_to_spawn = <<>>
    /\ despawn_queue = {}
    /\ time_of_day = DAY_LENGTH \div 2
    /\ snapshots = <<>>
    /\ update_timer = 0
    /\ paused = FALSE
    /\ key_p \in BOOLEAN
    /\ dt \in DtSet
    /\ elapsed = dt
    /\ order \in Schedules
    /\ sched = [s \in Steps |-> "ready"]
    /\ cond = [g \in {"env", "plant"} |-> "unset"]
    /\ frame = 1
    /\ sim_tick = 0
    /\ died_at = [id \in 1..MaxPlants |-> 0]
    /\ probe = [kind |-> "none"]

TallSpec == TallInit /\ [][Next]_vars

\* --- root growth: try_grow_root repeated on two seeds, for shallow and deep
\* root depths
\* root_depth genes: get_root_depth gives 1, 5 and 20
RootGenes == {0, 211, 1000}

RootInit ==
    /\ world = NewWorld
    /\ \E xs \in [1..2 -> 0..(WORLD_WIDTH - 1)], gs \in [1..2 -> RootGenes] :
          plants = [id \in 1..2 |->
                      SpawnPlant(VoxelPos(xs[id], WORLD_HEIGHT \div 2 - 1, 0),
                                 [UniformGenome(0) EXCEPT !["root_depth"] = gs[id]],
                                 0, 0, id - 1)]
    /\ species_counter = INITIAL_SEED_COUNT
    /\ seeds_to_spawn = <<>>
    /\ despawn_queue = {}
    /\ time_of_day = DAY_LENGTH \div 2
    /\ snapshots = <<>>
    /\ update_timer = 0
    /\ paused = FALSE
    /\ key_p = FALSE
    /\ dt = 1
    /\ elapsed = dt
    /\ order = RegistrationOrder
    /\ sched = [s \in Steps |-> "ready"]
    /\ cond = [g \in {"env", "plant"} |-> "unset"]
    /\ frame = 1
    /\ sim_tick = 0
    /\ died_at = [id \in 1..MaxPlants |-> 0]
    /\ probe = [kind |-> "root", last |-> 0, grew |-> FALSE]

\* try_grow_root(entity, ...) for one plant
RootGrow ==
    /\ \E id \in DOMAIN plants :
          LET st == [world |-> world, plants |-> plants]
              r == TryGrowRoot(st, id)
          IN /\ world' = r.world
             /\ plants' = r.plants
             /\ probe' = [kind |-> "root", last |-> id, grew |-> r # st]
    /\ UNCHANGED <<species_counter, seeds_to_spawn, despawn_queue, time_of_day, snapshots,
                   update_timer, paused, key_p, dt, elapsed, order, sched, cond, frame,
                   sim_tick, died_at>>

RootSpec == RootInit /\ [][RootGrow]_vars

\* --- reproduction with the seed sites taken: the schedule started from a
\* plant that has grown over its root, with or without a leaf over the next column
ReproRoot == VoxelPos(0, WORLD_HEIGHT \div 2 - 1, 0)

ReproStem == VoxelPos(ReproRoot[1], ReproRoot[2] + 1, ReproRoot[3])

ReproLeaf == VoxelPos(ReproRoot[1] + 1, ReproRoot[2] + 1, ReproRoot[3])

\* the energies <<grown plant, seed next to it>>, around the reproduction
\* threshold of their genome
ReproEnergies ==
    {<<GetReproductionThreshold(UniformGenome(0)),
       GetReproductionThreshold(UniformGenome(0)) - 1>>,
     <<GetReproductionThreshold(UniformGenome(0)) + REPRODUCTION_ENERGY_COST + 5000,
       GetReproductionThreshold(UniformGenome(0))>>}

\* the cells the grown plant has claimed
ReproCells(leaf) == IF leaf THEN <<ReproStem, ReproLeaf>> ELSE <<ReproStem>>

\* the grid after grow_voxel has claimed these cells and the light was updated
ReproWorld(leaf) ==
    UpdateLight([k \in 1..TotalVoxels |->
                    IF IndexToPos(k - 1) \in Range(ReproCells(leaf))
                    THEN [NewWorld[k] EXCEPT !.voxel_type = "PlantMaterial", !.plant_id = 1]
                    ELSE NewWorld[k]])

ReproInit ==
    /\ \E leaf \in BOOLEAN, e \in ReproEnergies :
          /\ world = ReproWorld(leaf)
          /\ plants = [id \in 1..2 |->
                IF id = 1
                THEN [SpawnPlant(ReproRoot, UniformGenome(0), 0, 0, 0) EXCEPT
                         !.energy = e[1],
                         !.age = GROWTH_INTERVAL,
                         !.voxel_positions = <<ReproRoot>> \o ReproCells(leaf),
                         !.leaf_positions = IF leaf THEN <<ReproLeaf>> ELSE <<>>,
                         !.total_mass = 1 + Len(ReproCells(leaf))]
                ELSE [SpawnPlant(VoxelPos(WORLD_WIDTH - 1, ReproRoot[2], 0),
                                 UniformGenome(0), 0, 0, 1)
                         EXCEPT !.energy = e[2]]]
    /\ species_counter = INITIAL_SEED_COUNT
    /\ seeds_to_spawn = <<>>
    /\ despawn_queue = {}
    /\ time_of_day = DAY_LENGTH \div 2
    /\ snapshots = <<>>
    /\ update_timer = 0
    /\ paused = FALSE
    /\ key_p = FALSE
    /\ dt = GROWTH_INTERVAL
    /\ elapsed = dt
    /\ order \in Schedules
    /\ sched = [s \in Steps |-> "ready"]
    /\ cond = [g \in {"env", "plant"} |-> "unset"]
    /\ frame = 1
    /\ sim_tick = 0
    /\ died_at = [id \in 1..MaxPlants |-> 0]
    /\ probe = [kind |-> "none"]

ReproSpec == ReproInit /\ [][Next]_vars

\* --- species classification: the distance test of reproduction_system on
\* parent and offspring genomes at chosen distances
MaxClassifications == 4

\* genomes at distances 0, 0.05, 0.10, 0.15, 0.20, 0.25 and 0.30 of each other
SpeciesGenomes == {UniformGenome(0), UniformGenome(100), UniformGenome(250),
                   UniformGenome(300)}

\* the species ids 0..INITIAL_SEED_COUNT-1 of the initial seeds are in use;
\* ids: the species ids of the plants created so far, handed: the ids allocated
SpeciesInit ==
    /\ Idle
    /\ probe = [kind |-> "species", ids |-> 0..(INITIAL_SEED_COUNT - 1), steps |-> 0,
                handed |-> <<>>,
                last |-> [parent |-> 0, child |-> 0, distance |-> 0]]

\* genome.distance(&offspring_genome) and the choice of offspring_species_id
\* for a parent of one of the species in use
SpeciesClassify ==
    /\ probe.steps < MaxClassifications
    /\ \E parent \in probe.ids, genome \in SpeciesGenomes,
          offspring_genome \in SpeciesGenomes :
          LET genetic_distance == Distance(genome, offspring_genome)
              c == ClassifySpecies(genetic_distance, parent, species_counter)
          IN /\ species_counter' = c.counter
             /\ probe' = [kind |-> "species", ids |-> probe.ids \cup {c.species_id},
                          steps |-> probe.steps + 1,
                          handed |-> IF genetic_distance > SPECIES_DIVERGENCE_THRESHOLD
                                     THEN Append(probe.handed, c.species_id)
                                     ELSE probe.handed,
                          last |-> [parent |-> parent, child |-> c.species_id,
                                    distance |-> genetic_distance]]
    /\ UNCHANGED <<world, plants, seeds_to_spawn, despawn_queue, time_of_day, snapshots,
                   update_timer, paused, key_p, dt, elapsed, order, sched, cond, frame,
                   sim_tick, died_at>>

SpeciesSpec == SpeciesInit /\ [][SpeciesClassify]_vars

\* --- genome distance: Genome::distance on chosen pairs of genomes
\* the all-0, all-0.5 and all-1 genomes, and the genomes with one gene at 1
DistanceGenomes ==
    {UniformGenome(0), UniformGenome(500), UniformGenome(1000)}
    \cup { [UniformGenome(0) EXCEPT ![n] = 1000] : n \in GeneSet }

DistanceInit ==
    /\ Idle
    /\ probe = [kind |-> "distance", a |-> UniformGenome(0), b |-> UniformGenome(0),
                d |-> 0, back |-> 0, calls |-> 0]

\* d = a.distance(&b) and back = b.distance(&a)
DistanceMeasure ==
    /\ \E a \in DistanceGenomes, b \in DistanceGenomes :
          probe' = [kind |-> "distance", a |-> a, b |-> b,
                    d |-> Distance(a, b), back |-> Distance(b, a), calls |-> 1]
    /\ StayIdle

DistanceSpec == DistanceInit /\ [][DistanceMeasure]_vars

\* --- starvation: the schedule, frame after frame with the simulation running,
\* started from one leafless plant that is short of energy
MaxStarveFrames == 12

StarveRoot == VoxelPos(0, WORLD_HEIGHT \div 2 - 1, 0)

\* the energy the plant is left with, below the cost of any growth
StarveEnergies == {25, 70}

\* a seed, a plant with a second root cell, a plant with a stem cell as well
StarveShapes == {"seed", "rooted", "stemmed"}

StarveCells(shape) ==
    IF shape = "seed" THEN <<>>
    ELSE IF shape = "rooted" THEN <<VoxelPos(StarveRoot[1], StarveRoot[2] - 1, StarveRoot[3])>>
    ELSE <<VoxelPos(StarveRoot[1], StarveRoot[2] - 1, StarveRoot[3]),
           VoxelPos(StarveRoot[1], StarveRoot[2] + 1, StarveRoot[3])>>

StarveRoots(shape) ==
    IF shape = "seed" THEN <<StarveRoot>>
    ELSE <<StarveRoot, VoxelPos(StarveRoot[1], StarveRoot[2] - 1, StarveRoot[3])>>

\* the grid after grow_voxel has claimed the grown cells and the light was updated
StarveWorld(shape) ==
    UpdateLight([k \in 1..TotalVoxels |->
                    IF IndexToPos(k - 1) \in Range(StarveCells(shape))
                    THEN [NewWorld[k] EXCEPT !.voxel_type = "PlantMaterial", !.plant_id = 1]
                    ELSE NewWorld[k]])

\* probe.start: the energy of each plant that was alive when the frame began
StarveInit ==
    /\ \E shape \in StarveShapes, e \in StarveEnergies :
          /\ world = StarveWorld(shape)
          /\ plants = [id \in {1} |->
                          [SpawnPlant(StarveRoot, UniformGenome(0), 0, 0, 0) EXCEPT
                              !.energy = e,
                              !.age = 4 * GROWTH_INTERVAL,
                              !.voxel_positions = <<StarveRoot>> \o StarveCells(shape),
                              !.root_positions = StarveRoots(shape),
                              !.total_mass = 1 + Len(StarveCells(shape))]]
          /\ probe = [kind |-> "starve", start |-> [id \in {1} |-> e]]
    /\ species_counter = INITIAL_SEED_COUNT
    /\ seeds_to_spawn = <<>>
    /\ despawn_queue = {}
    /\ time_of_day = DAY_LENGTH \div 2
    /\ snapshots = <<>>
    /\ update_timer = 0
    /\ paused = FALSE
    /\ key_p = FALSE
    /\ dt \in DtSet
    /\ elapsed = dt
    /\ order \in Schedules
    /\ sched = [s \in Steps |-> "ready"]
    /\ cond = [g \in {"env", "plant"} |-> "unset"]
    /\ frame = 1
    /\ sim_tick = 0
    /\ died_at = [id \in 1..MaxPlants |-> 0]

\* the next frame starts while a plant is left and P is not pressed
StarveFrame ==
    /\ sched["apply_deferred"] = "ran"
    /\ frame < MaxStarveFrames
    /\ DOMAIN plants # {}
    /\ sched' = [s \in Steps |-> "ready"]
    /\ cond' = [g \in {"env", "plant"} |-> "unset"]
    /\ frame' = frame + 1
    /\ dt' \in DtSet
    /\ key_p' = FALSE
    /\ order' \in Schedules
    /\ elapsed' = elapsed + dt'
    /\ probe' = [kind |-> "starve",
                 start |-> [id \in { i \in DOMAIN plants : plants[i].is_alive } |->
                              plants[id].energy]]
    /\ UNCHANGED <<world, plants, species_counter, seeds_to_spawn, despawn_queue,
                   time_of_day, snapshots, update_timer, paused, sim_tick, died_at>>

StarveNext ==
    \/ UpdateDayNightSystem
    \/ UpdateLightSystem
    \/ RegenerateResourcesSystem
    \/ PlantGrowthSystem
    \/ PhotosynthesisSystem
    \/ ResourceAbsorptionSystem
    \/ MaintenanceCostSystem
    \/ AgingSystem
    \/ ReproductionSystem
    \/ CleanupDeadPlantsSystem
    \/ CollectStatisticsSystem
    \/ PauseSystem
    \/ ApplyDeferred
    \/ StarveFrame

\* the app loop runs the schedule of every frame to its end and then starts the
\* next frame
StarveSpec == StarveInit /\ [][StarveNext]_vars /\ WF_vars(StarveNext)

\* --- species estimate: estimate_species_count on every short list of genomes
MaxPopulation == 4

\* genomes at distances 0.05, 0.1, 0.15, 0.2 and 0.3 of each other
ClusterGenomes == {UniformGenome(0), UniformGenome(100), UniformGenome(150),
                   UniformGenome(200), UniformGenome(300)}

ClusterInit ==
    /\ Idle
    /\ probe = [kind |-> "cluster", genomes |-> <<>>,
                species_count |-> EstimateSpeciesCount(<<>>, <<>>)]

\* one more alive genome is collected and the estimate is taken
ClusterCollect ==
    /\ Len(probe.genomes) < MaxPopulation
    /\ \E g \in ClusterGenomes :
          LET genomes == Append(probe.genomes, g)
          IN probe' = [kind |-> "cluster", genomes |-> genomes,
                       species_count |-> EstimateSpeciesCount(genomes, <<>>)]
    /\ StayIdle

ClusterSpec == ClusterInit /\ [][ClusterCollect]_vars

\* ------------------------------------------------------------ properties
Living == { id \in DOMAIN plants : plants[id].is_alive }
Dead == { id \in DOMAIN plants : ~plants[id].is_alive }
Persisting == DOMAIN plants \cap DOMAIN plants'
Claimed(id) == Range(plants[id].voxel_positions)
IsPlantCell(w, pos, id) ==
    /\ Get(w, pos) # Absent
    /\ Get(w, pos).voxel_type = "PlantMaterial"
    /\ Get(w, pos).plant_id = id
JustRan(s) == sched[s] = "ready" /\ sched'[s] = "ran"

\* C1: every position in a living plant's voxel_positions, the root placed at
\* spawn included, is a PlantMaterial cell tagged with the plant's id.
C1_ClaimedCellsArePlantMaterial ==
    \A id \in Living : \A pos \in Claimed(id) : IsPlantCell(world, pos, id)

\* C2: no position is in the voxel_positions of two different living plants.
C2_NoSharedPosition ==
    \A p \in Living : \A q \in Living : p # q => Claimed(p) \cap Claimed(q) = {}

\* C3: at the end of a tick, after the cleanup pass, every PlantMaterial cell is
\* listed by exactly one living plant, and that plant is the one the cell names.
C3_PlantCellsOwnedAtTickEnd ==
    (FrameDone /\ cond["plant"] = "run") =>
        \A pos \in AllPositions :
            Get(world, pos).voxel_type = "PlantMaterial" =>
                /\ Cardinality({ id \in Living : pos \in Claimed(id) }) = 1
                /\ Get(world, pos).plant_id \in Living
                /\ pos \in Claimed(Get(world, pos).plant_id)

\* the positions a step appends to a plant's voxel_positions
NewlyClaimed(id) ==
    { plants'[id].voxel_positions[i] :
        i \in (Len(plants[id].voxel_positions) + 1)..Len(plants'[id].voxel_positions) }

\* C4: growth claims are serialized against the live grid: a cell a plant claims
\* was not PlantMaterial before the pass, carries that plant's id after it, and
\* is claimed by no other plant and not twice in the same pass.
C4_GrowthClaimsSerialized ==
    [][\A p \in Persisting :
          /\ Len(plants'[p].voxel_positions) - Len(plants[p].voxel_positions)
                = Cardinality(NewlyClaimed(p))
          /\ \A pos \in NewlyClaimed(p) :
                /\ Get(world, pos).voxel_type # "PlantMaterial"
                /\ IsPlantCell(world', pos, p)
                /\ \A q \in Persisting : q # p => pos \notin NewlyClaimed(q)]_vars

\* two living plants, one holding the cell right above the other's highest voxel
C4_Witness ==
    \E p \in Living : \E q \in Living :
        /\ p # q
        /\ LET h == HighestPos(plants[q].voxel_positions)
           IN IsPlantCell(world, VoxelPos(h[1], h[2] + 1, h[3]), p)
        /\ sched["plant_growth"] = "ran"
        /\ frame > 1

\* C5: once a plant's alive flag is false, no step sets it back to true.
C5_DeathIsFinal ==
    [][\A id \in Persisting : ~plants[id].is_alive => ~plants'[id].is_alive]_vars

\* a plant that died in an earlier tick is still there after a maintenance pass
C5_Witness ==
    \E id \in Dead : died_at[id] < sim_tick /\ sched["maintenance_cost"] = "ran"

\* C6: no pass changes the energy, age, mass or position lists of a dead plant,
\* claims a cell for it or records an offspring of it.
C6_DeadPlantFrozen ==
    [][\A id \in Persisting :
          ~plants[id].is_alive =>
              /\ plants'[id].energy = plants[id].energy
              /\ plants'[id].age = plants[id].age
              /\ plants'[id].total_mass = plants[id].total_mass
              /\ plants'[id].root_position = plants[id].root_position
              /\ plants'[id].voxel_positions = plants[id].voxel_positions
              /\ plants'[id].leaf_positions = plants[id].leaf_positions
              /\ plants'[id].root_positions = plants[id].root_positions
              /\ \A pos \in AllPositions :
                    IsPlantCell(world', pos, id) => IsPlantCell(world, pos, id)
              /\ \A i \in (Len(seeds_to_spawn) + 1)..Len(seeds_to_spawn') :
                    seeds_to_spawn'[i].seed.parent_id # id]_vars

\* a plant that died in an earlier tick has been through all six passes
C6_Witness ==
    \E id \in Dead :
        /\ died_at[id] < sim_tick
        /\ \A s \in {"photosynthesis", "resource_absorption", "maintenance_cost",
                     "aging", "plant_growth", "reproduction"} : sched[s] = "ran"

\* C7: the length of voxel_positions never decreases and age never decreases;
\* the aging pass adds dt to the age of a living plant and leaves a dead plant's
\* age alone, and no other step changes age.
C7_Monotone ==
    [][\A id \in Persisting :
          /\ Len(plants'[id].voxel_positions) >= Len(plants[id].voxel_positions)
          /\ plants'[id].age >= plants[id].age
          /\ plants'[id].age =
                IF JustRan("aging") /\ plants[id].is_alive
                THEN plants[id].age + dt ELSE plants[id].age]_vars

\* a living plant that has aged and grown, next to a dead plant that an aging
\* pass has passed over
C7_Witness ==
    /\ \E p \in Living : plants[p].age > 0 /\ Len(plants[p].voxel_positions) > 1
    /\ \E q \in Dead : died_at[q] < sim_tick /\ sched["aging"] = "ran"

\* C8: a dead plant is cleaned up once, by the cleanup pass of the tick of its
\* death or of the next tick: the pass reverts all its cells to Soil and queues
\* its despawn, only dead plants are removed, and no dead plant outlives the
\* tick after its death.
C8_CleanupOnceByNextTick ==
    /\ [](/\ despawn_queue \subseteq Dead
          /\ \A id \in Dead :
                /\ plants[id].changed \/ id \in despawn_queue
                /\ sim_tick <= died_at[id] + 1)
    /\ [][/\ JustRan("cleanup_dead_plants") =>
                /\ despawn_queue = {}
                /\ despawn_queue' = Dead
                /\ \A id \in Dead : \A pos \in Claimed(id) :
                      Get(world', pos).voxel_type = "Soil"
          /\ JustRan("apply_deferred") =>
                /\ DOMAIN plants \ DOMAIN plants' = despawn_queue
                /\ despawn_queue' = {}
          /\ ~JustRan("cleanup_dead_plants") => despawn_queue' \subseteq despawn_queue]_vars

\* a plant that grew, died and was cleaned up: its cells are Soil again and its
\* despawn is queued
C8_Witness ==
    \E id \in despawn_queue :
        /\ Len(plants[id].voxel_positions) > 2
        /\ \A pos \in Claimed(id) : Get(world, pos).voxel_type = "Soil"

\* C9: within a tick the components run in the order Environment, photosynthesis,
\* absorption, maintenance, aging, Growth, Reproduction, Cleanup, Statistics.
ClaimedOrder ==
    <<EnvSystems, {"photosynthesis"}, {"resource_absorption"}, {"maintenance_cost"},
      {"aging"}, {"plant_growth"}, {"reproduction"}, {"cleanup_dead_plants"},
      {"collect_statistics"}>>

C9_FixedOrder ==
    \A i \in 1..Len(ClaimedOrder) : \A j \in (i + 1)..Len(ClaimedOrder) :
        \A a \in ClaimedOrder[i] : \A b \in ClaimedOrder[j] :
            sched[b] # "ready" => sched[a] # "ready"

\* C10: while the pause gate is set no simulation component is invoked, and a
\* step that toggles the gate changes nothing else.
C10_PauseGate ==
    [][/\ paused => \A s \in EnvSystems \cup PlantSystems \cup {"collect_statistics"} :
                        ~JustRan(s)
       /\ paused' # paused =>
             UNCHANGED <<world, plants, species_counter, seeds_to_spawn, despawn_queue,
                         time_of_day, snapshots, update_timer>>]_vars

\* C11: every gene value of every genome lies in [0, 1] (0..1000 here) after
\* any number of reproduce and mutate steps from Gene::new, whatever the draws.
C11_GenesInRange ==
    /\ \A id \in DOMAIN plants : \A n \in GeneSet : plants[id].genome[n] \in 0..1000
    /\ probe.kind = "gene" => \A n \in GeneSet : probe.genome[n] \in 0..1000

\* a genome whose max_height alone was mutated upward from 0.95 and clamped at 1
C11_Witness ==
    /\ probe.kind = "gene"
    /\ probe.steps >= 1
    /\ probe.genome["max_height"] = 1000
    /\ probe.genome["growth_rate"] = 950

\* C12: nutrients and water of every voxel stay within [0, 100] under any
\* interleaving of regeneration and absorption passes, also when two plants
\* absorb from the same cell in one pass, for every dt >= 0.
C12_ResourcesInRange ==
    \A k \in DOMAIN world :
        /\ world[k].nutrients \in 0..SOIL_NUTRIENT_MAX
        /\ world[k].water \in 0..SOIL_WATER_MAX

\* an absorption pass has emptied the shared root cell: the first plant took
\* what was left of the nutrients and the second found less
C12_Witness ==
    /\ probe.kind = "soil"
    /\ probe.last = "absorb"
    /\ world[IndexOf(SoilRoot)].nutrients = 0
    /\ world[IndexOf(SoilRoot)].water = 0
    /\ plants[1].energy > plants[2].energy
    /\ plants[2].energy > STARTING_ENERGY

\* the attenuation factors as the specification states them: <<numerator, denominator>>
StatedFactor(voxel_type) ==
    IF voxel_type = "PlantMaterial" THEN <<6, 10>>
    ELSE IF voxel_type = "Soil" THEN <<1, 10>>
    ELSE <<1, 1>>

\* SUNLIGHT_MAX multiplied, from the top of the column down, by the stated
\* factor of every cell from height y down to the cell right above `pos`
RECURSIVE LightThrough(_, _, _, _)
LightThrough(w, pos, y, acc) ==
    IF y <= pos[2] THEN acc
    ELSE LET f == StatedFactor(Get(w, VoxelPos(pos[1], y, pos[3])).voxel_type)
         IN LightThrough(w, pos, y - 1, (acc * f[1]) \div f[2])

\* C13: after a light update every cell holds SUNLIGHT_MAX times the factors of
\* the cells strictly above it (0.6 PlantMaterial, 0.1 Soil, 1 Air), its own
\* factor not applied; under open Air the surface Soil cell holds 100 and the
\* Soil cell below it 10.
C13_LightFromCellsAbove ==
    [][JustRan("update_light") =>
          \A pos \in AllPositions :
              /\ Get(world', pos).light_level
                    = LightThrough(world, pos, WORLD_HEIGHT - 1, SUNLIGHT_MAX)
              /\ (/\ pos[2] = WORLD_HEIGHT \div 2 - 1
                  /\ Get(world, pos).voxel_type = "Soil"
                  /\ Get(world, VoxelPos(pos[1], pos[2] - 1, pos[3])).voxel_type = "Soil"
                  /\ \A y \in (pos[2] + 1)..(WORLD_HEIGHT - 1) :
                        Get(world, VoxelPos(pos[1], y, pos[3])).voxel_type = "Air")
                 => /\ Get(world', pos).light_level = 100000
                    /\ Get(world', VoxelPos(pos[1], pos[2] - 1, pos[3])).light_level
                          = 10000]_vars

\* the light update has run over a column with plant material in it: a Soil
\* cell under two plant cells holds 36, and a Soil cell under open Air 100
C13_Witness ==
    /\ sched["update_light"] = "ran"
    /\ \E pos \in AllPositions :
          /\ Get(world, pos).voxel_type = "Soil"
          /\ Get(world, pos).light_level = 36000
    /\ \E pos \in AllPositions :
          /\ Get(world, pos).voxel_type = "Soil"
          /\ Get(world, pos).light_level = 100000

\* the grid w with the same voxel types and other light, nutrient and water values
OtherEnvironment(w) ==
    [k \in DOMAIN w |->
        [w[k] EXCEPT !.light_level = (k * 7919) % (SUNLIGHT_MAX + 1),
                     !.nutrients = (k * 3) % (SOIL_NUTRIENT_MAX + 1),
                     !.water = (k * 5) % (SOIL_WATER_MAX + 1)]]

\* C14: the light update is a function of the voxel types only: repeating it
\* changes nothing, other light, nutrient and water values or another time of
\* day give the same light levels, and only light_level is written.
C14_LightIsFunctionOfTypes ==
    [][JustRan("update_light") =>
          /\ UpdateLight(world') = world'
          /\ \A k \in DOMAIN world :
                /\ UpdateLight(OtherEnvironment(world))[k].light_level
                      = world'[k].light_level
                /\ world'[k] = [world[k] EXCEPT !.light_level = world'[k].light_level]
          /\ DOMAIN world' = DOMAIN world
          /\ UNCHANGED <<plants, time_of_day, species_counter, snapshots, paused>>]_vars

\* the light update has run on a grid that already held light levels, with
\* depleted soil and the day advanced: the cell under the seed holds 60
C14_Witness ==
    /\ sched["update_light"] = "ran"
    /\ time_of_day > 0
    /\ frame >= 2
    /\ \E k \in DOMAIN world :
          world[k].voxel_type = "Soil" /\ world[k].nutrients < SOIL_NUTRIENT_MAX
    /\ \E k \in DOMAIN world :
          world[k].voxel_type = "Soil" /\ world[k].light_level = 60000

\* C15: get and get_mut are absent exactly for the positions with a negative
\* coordinate or with x >= width, y >= height or z >= depth, and give a voxel
\* for every other position; a write through an absent get_mut changes nothing,
\* and the growth and seed checks answer FALSE for an absent cell.
C15_AbsentExactlyOutOfBounds ==
    /\ probe.kind = "grid" =>
          \A pos \in GridProbes :
              LET outside == \/ pos[1] < 0 \/ pos[2] < 0 \/ pos[3] < 0
                             \/ pos[1] >= probe.grid.width
                             \/ pos[2] >= probe.grid.height
                             \/ pos[3] >= probe.grid.depth
              IN /\ (GridGet(probe.grid, pos) = Absent) <=> outside
                 /\ ~outside =>
                       GridGet(probe.grid, pos).voxel_type \in {"Air", "Soil", "PlantMaterial"}
                 /\ outside =>
                       \A v \in GridValues : GridSet(probe.grid, pos, v) = probe.grid
    /\ \A pos \in GridProbes :
          Get(world, pos) = Absent =>
              /\ ~CanGrowAt(pos, world)
              /\ ~CanGrowRootAt(pos, world)
              /\ ~IsValidSeedPosition(pos, world)

\* a grid deeper than one cell whose width differs from its depth has been
\* written, and the last write went to a position outside it
C15_Witness ==
    /\ probe.kind = "grid"
    /\ probe.steps = MaxGridWrites
    /\ probe.missed
    /\ probe.grid.depth >= 2
    /\ probe.grid.width # probe.grid.depth
    /\ \E k \in DOMAIN probe.grid.voxels : probe.grid.voxels[k].voxel_type = "PlantMaterial"

\* the in-bounds positions of the grid g
GridInside(g) == {pos \in GridProbes : GridIsInBounds(g, pos)}

\* C16: indexing is one-to-one: a write at p changes what get returns for p
\* only, distinct positions have distinct indices, and iter_positions yields
\* every in-bounds position once, x fastest, then z, then y, the k-th position
\* having index k = x + z*width + y*width*depth.
C16_IndexingOneToOne ==
    probe.kind = "grid" =>
        LET g == probe.grid
            n == g.width * g.height * g.depth
            its == GridIterPositions(g)
        IN /\ \A p \in GridProbes, q \in GridInside(g), v \in GridValues :
                 GridGet(GridSet(g, p, v), q) = IF q = p THEN v ELSE GridGet(g, q)
           /\ \A p \in GridInside(g), q \in GridInside(g) :
                 p # q => PosToIndex(p[1], p[2], p[3], g.width, g.depth)
                             # PosToIndex(q[1], q[2], q[3], g.width, g.depth)
           /\ Len(its) = n
           /\ Range(its) = GridInside(g)
           /\ \A k \in 1..n :
                 /\ PosToIndex(its[k][1], its[k][2], its[k][3], g.width, g.depth) = k - 1
                 /\ its[k] = VoxelPos((k - 1) % g.width,
                                      (k - 1) \div (g.width * g.depth),
                                      ((k - 1) \div g.width) % g.depth)

\* a write has landed beyond the first row and the first layer of a grid whose
\* width, height and depth all differ
C16_Witness ==
    /\ probe.kind = "grid"
    /\ probe.steps >= 1
    /\ ~probe.missed
    /\ probe.grid.width = 3 /\ probe.grid.height = 2 /\ probe.grid.depth = 2
    /\ GridGet(probe.grid, VoxelPos(2, 1, 1)).voxel_type = "PlantMaterial"
    /\ GridGet(probe.grid, VoxelPos(2, 1, 1)).plant_id = 7

\* C17: after a maintenance pass a plant is alive exactly if it was alive
\* before the pass and its drained energy is above 0; a living plant drained
\* to 0 or below is dead when the pass ends.
C17_MaintenanceSetsDeath ==
    [][JustRan("maintenance_cost") =>
          \A id \in Persisting :
              /\ plants'[id].is_alive
                    <=> (plants[id].is_alive /\ plants'[id].energy > 0)
              /\ plants[id].is_alive =>
                    plants'[id].energy = plants[id].energy - TotalMaintenance(plants[id])
              /\ (plants[id].is_alive /\ plants'[id].energy <= 0)
                    => ~plants'[id].is_alive]_vars

\* the maintenance pass of this tick has drained one plant to 0 or below and
\* left another one alive
C17_Witness ==
    /\ sched["maintenance_cost"] = "ran"
    /\ sched["apply_deferred"] = "ready"
    /\ \E id \in Dead : died_at[id] = sim_tick /\ plants[id].energy <= 0
    /\ \E id \in Living : plants[id].energy > 0

\* the highest y among the positions vs
TopOf(vs) == CHOOSE y \in {vs[i][2] : i \in 1..Len(vs)} : \A i \in 1..Len(vs) : vs[i][2] <= y

\* the growth pass may act on plant p: it is alive, its timer elapses in this
\* tick, it can pay for a voxel and it is below its height limit
MayGrow(p) ==
    /\ p.is_alive
    /\ p.timer + dt >= GROWTH_INTERVAL
    /\ p.energy >= BASE_GROWTH_COST
    /\ TopOf(p.voxel_positions) < p.root_position[2] + GetMaxHeight(p.genome)

\* C18: a growth pass claims voxels for a plant only if the plant is alive, its
\* timer has elapsed in this tick, its energy is at least BASE_GROWTH_COST and
\* its highest y is below root.y + max height; otherwise its energy, mass,
\* position lists and cells stay as they were; and a plant has at most one
\* growth event per pass: one stem or branch voxel, one leaf and one root.
C18_GrowthPreconditions ==
    [][JustRan("plant_growth") =>
          \A id \in Persisting :
              LET p == plants[id]
                  q == plants'[id]
                  added == Len(q.voxel_positions) - Len(p.voxel_positions)
                  leaves == Len(q.leaf_positions) - Len(p.leaf_positions)
                  roots == Len(q.root_positions) - Len(p.root_positions)
              IN /\ added > 0 => MayGrow(p)
                 /\ ~MayGrow(p) =>
                       /\ q.energy = p.energy
                       /\ q.total_mass = p.total_mass
                       /\ q.voxel_positions = p.voxel_positions
                       /\ q.leaf_positions = p.leaf_positions
                       /\ q.root_positions = p.root_positions
                       /\ \A pos \in AllPositions :
                             IsPlantCell(world', pos, id) <=> IsPlantCell(world, pos, id)
                 /\ leaves \in 0..1
                 /\ roots \in 0..1
                 /\ added - leaves - roots \in 0..1
                 /\ q.energy = p.energy - added * BASE_GROWTH_COST]_vars

\* in the second tick the growth pass has passed over a living plant whose
\* timer elapsed and which could pay, because its stem is at the height limit
C18_Witness ==
    /\ frame >= 2
    /\ dt = GROWTH_INTERVAL
    /\ sched["plant_growth"] = "ran"
    /\ \E id \in Living :
          /\ plants[id].energy >= BASE_GROWTH_COST
          /\ TopOf(plants[id].voxel_positions)
                = plants[id].root_position[2] + GetMaxHeight(plants[id].genome)

\* the positions a step appends to a plant's root_positions
NewRoots(id) ==
    { plants'[id].root_positions[i] :
        i \in (Len(plants[id].root_positions) + 1)..Len(plants'[id].root_positions) }

\* the positions a step appends to a plant's leaf_positions
NewLeaves(id) ==
    { plants'[id].leaf_positions[i] :
        i \in (Len(plants[id].leaf_positions) + 1)..Len(plants'[id].leaf_positions) }

\* C19: an upward, branch or leaf attempt succeeds only on an in-bounds Air
\* cell; each success costs exactly BASE_GROWTH_COST, appends the position to
\* voxel_positions (a leaf to leaf_positions too), and turns the cell into
\* PlantMaterial carrying the plant's id and its species id.
C19_GrowthSuccessEffects ==
    [][JustRan("plant_growth") =>
          \A id \in Persisting :
              /\ plants'[id].energy = plants[id].energy
                    - BASE_GROWTH_COST * Cardinality(NewlyClaimed(id))
              /\ NewLeaves(id) \subseteq NewlyClaimed(id)
              /\ \A pos \in NewlyClaimed(id) \ NewRoots(id) :
                    /\ IsInBounds(pos)
                    /\ Get(world, pos).voxel_type = "Air"
                    /\ Get(world', pos).voxel_type = "PlantMaterial"
                    /\ Get(world', pos).plant_id = id
                    /\ Get(world', pos).species_id = plants[id].species_id]_vars

\* the cell at pos can be claimed by a stem, a branch or a leaf
IsAirCell(w, pos) == IsInBounds(pos) /\ Get(w, pos).voxel_type = "Air"

\* the cell at pos can be claimed by a root
IsRootable(w, pos) == IsInBounds(pos) /\ Get(w, pos).voxel_type \in {"Air", "Soil"}

\* the cell below the lowest root of plant p
RootTarget(p) ==
    LET low == CHOOSE r \in Range(p.root_positions) :
                   \A o \in Range(p.root_positions) : r[2] <= o[2]
    IN VoxelPos(low[1], low[2] - 1, low[3])

\* the first position that the outcome r of an attempt adds to plant id of st
FirstAdded(st, r, id) ==
    r.plants[id].voxel_positions[Len(st.plants[id].voxel_positions) + 1]

\* in the state st every attempt of every plant on a blocked target leaves st as it is
BlockedIsNoOp(st) ==
    \A id \in DOMAIN st.plants :
        /\ \A from_pos \in Range(st.plants[id].voxel_positions) :
              /\ ~IsAirCell(st.world, VoxelPos(from_pos[1], from_pos[2] + 1, from_pos[3]))
                    => TryGrowUpward(st, id, from_pos) = {st}
              /\ LET rs == TryGrowBranch(st, id, from_pos)
                 IN /\ (\E t \in BranchDirections(from_pos) : ~IsAirCell(st.world, t))
                          => st \in rs
                    /\ \A r \in rs : r # st => IsAirCell(st.world, FirstAdded(st, r, id))
              /\ LET rs == AddLeaf(st, id, from_pos)
                 IN /\ (\E o \in LeafOffsets :
                           ~IsAirCell(st.world, VoxelPos(from_pos[1] + o[1], from_pos[2] + o[2],
                                                         from_pos[3] + o[3])))
                          => st \in rs
                    /\ \A r \in rs : r # st => IsAirCell(st.world, FirstAdded(st, r, id))
        /\ ~IsRootable(st.world, RootTarget(st.plants[id])) => TryGrowRoot(st, id) = st

\* C20: a growth attempt whose target is out of bounds or not claimable (not
\* Air for stem, branch and leaf; neither Air nor Soil for roots) is a no-op:
\* energy, mass, the position lists and every grid cell stay as they were.
\* Checked on the states a growth pass starts from and ends in.
C20_BlockedAttemptIsNoOp ==
    [][JustRan("plant_growth") =>
          /\ BlockedIsNoOp([world |-> world, plants |-> plants])
          /\ BlockedIsNoOp([world |-> world', plants |-> plants'])]_vars

\* after a growth pass a living plant's next root target is another plant's
\* root cell, and the cell above its top is taken as well
C20_Witness ==
    /\ sched["plant_growth"] = "ran"
    /\ \E id \in Living :
          /\ Len(plants[id].root_positions) = 1
          /\ Get(world, RootTarget(plants[id])).voxel_type = "PlantMaterial"
          /\ Get(world, RootTarget(plants[id])).plant_id # id
          /\ LET h == HighestPos(plants[id].voxel_positions)
             IN ~IsAirCell(world, VoxelPos(h[1], h[2] + 1, h[3]))

\* C21: a root is grown only in the cell directly below the plant's deepest
\* root, only while that root is above root.y minus the root depth, and only
\* into an in-bounds Air or Soil cell; it is appended to voxel_positions and to
\* root_positions. So no root lies below root.y minus the root depth or below 0.
C21_RootGrowthBounded ==
    [][\A id \in Persisting :
          LET p == plants[id]
              floor == p.root_position[2] - GetRootDepth(p.genome)
          IN /\ Cardinality(NewRoots(id)) <= 1
             /\ Len(plants'[id].root_positions) - Len(p.root_positions)
                   = Cardinality(NewRoots(id))
             /\ \A pos \in NewRoots(id) :
                   /\ pos = RootTarget(p)
                   /\ pos[2] + 1 > floor
                   /\ IsInBounds(pos)
                   /\ Get(world, pos).voxel_type \in {"Air", "Soil"}
                   /\ pos \in NewlyClaimed(id)
             /\ \A r \in Range(plants'[id].root_positions) : r[2] >= floor /\ r[2] >= 0]_vars

\* a plant with root depth 20 has its roots down to y = 0 and its last attempt
\* was refused, next to a plant that stopped at root.y minus its root depth
C21_Witness ==
    /\ probe.kind = "root"
    /\ ~probe.grew
    /\ \E id \in DOMAIN plants :
          /\ probe.last = id
          /\ GetRootDepth(plants[id].genome) = 20
          /\ RootTarget(plants[id])[2] = 0 - 1
    /\ \E id \in DOMAIN plants :
          /\ Len(plants[id].root_positions) >= 2
          /\ RootTarget(plants[id])[2] + 1
                = plants[id].root_position[2] - GetRootDepth(plants[id].genome)

\* the seeds a step queues for spawning
NewSeeds ==
    { seeds_to_spawn'[i].seed : i \in (Len(seeds_to_spawn) + 1)..Len(seeds_to_spawn') }

\* plant p may reproduce: it is alive and its energy is at least its threshold
MayReproduce(p) == p.is_alive /\ p.energy >= GetReproductionThreshold(p.genome)

\* C22: a reproduction pass charges a living plant at or above its threshold
\* REPRODUCTION_ENERGY_COST exactly once, whether or not a seed site is found;
\* without a valid candidate it produces no offspring and the species counter
\* stays; a plant below its threshold is left unchanged.
C22_ReproductionCharge ==
    [][JustRan("reproduction") =>
          /\ DOMAIN plants' = DOMAIN plants
          /\ \A id \in DOMAIN plants :
                /\ MayReproduce(plants[id]) =>
                      /\ plants'[id].energy = plants[id].energy - REPRODUCTION_ENERGY_COST
                      /\ Cardinality({ sd \in NewSeeds : sd.parent_id = id }) <= 1
                /\ ~MayReproduce(plants[id]) =>
                      /\ plants'[id] = plants[id]
                      /\ \A sd \in NewSeeds : sd.parent_id # id
                /\ (\A c \in SeedCandidates(plants[id].root_position) :
                       ~IsValidSeedPosition(c, world))
                      => \A sd \in NewSeeds : sd.parent_id # id
          /\ NewSeeds = {} => species_counter' = species_counter]_vars

\* a reproduction pass has charged a plant that found no seed site: every
\* candidate around its root is taken, it is charged, and nothing is queued
C22_Witness ==
    /\ sched["reproduction"] = "ran"
    /\ sched["maintenance_cost"] = "ready"
    /\ seeds_to_spawn = <<>>
    /\ \A c \in SeedCandidates(ReproRoot) : ~IsValidSeedPosition(c, world)
    /\ \E id \in Living :
          plants[id].energy
             = GetReproductionThreshold(plants[id].genome) - REPRODUCTION_ENERGY_COST
    /\ \E id \in Living :
          plants[id].energy = GetReproductionThreshold(plants[id].genome) - 1

\* C23: every offspring's root is an in-bounds Soil cell with an Air cell
\* directly above it, at the y of the parent's root and at most
\* SEED_DISPERSAL_RANGE away from it in x and in z; a search examines at most
\* 20 candidates.
C23_SeedSiteValid ==
    [][JustRan("reproduction") =>
          /\ world' = world
          /\ \A sd \in NewSeeds :
                LET parent_pos == plants[sd.parent_id].root_position
                    above == VoxelPos(sd.pos[1], sd.pos[2] + 1, sd.pos[3])
                IN /\ IsInBounds(sd.pos)
                   /\ Get(world, sd.pos).voxel_type = "Soil"
                   /\ IsInBounds(above)
                   /\ Get(world, above).voxel_type = "Air"
                   /\ sd.pos[2] = parent_pos[2]
                   /\ Abs(sd.pos[1] - parent_pos[1]) <= SEED_DISPERSAL_RANGE
                   /\ Abs(sd.pos[3] - parent_pos[3]) <= SEED_DISPERSAL_RANGE
          /\ \A id \in { i \in DOMAIN plants : MayReproduce(plants[i]) } :
                /\ \A r \in SeedOutcomes(plants[id].root_position, world) :
                      /\ r.examined \in 1..20
                      /\ r.pos = NoSeed => r.examined = 20
                      /\ r.pos # NoSeed => r.pos \in SeedCandidates(plants[id].root_position)
                /\ \A c \in SeedCandidates(plants[id].root_position) :
                      /\ c[2] = plants[id].root_position[2]
                      /\ Abs(c[1] - plants[id].root_position[1]) <= SEED_DISPERSAL_RANGE
                      /\ Abs(c[3] - plants[id].root_position[3]) <= SEED_DISPERSAL_RANGE]_vars

\* an offspring is queued in the next column while the cell over its parent's
\* root is taken, so that the parent's own cell was not a valid site
C23_Witness ==
    /\ sched["reproduction"] = "ran"
    /\ ~IsValidSeedPosition(ReproRoot, world)
    /\ \E i \in 1..Len(seeds_to_spawn) :
          LET sd == seeds_to_spawn[i].seed
          IN /\ sd.parent_id \in DOMAIN plants
             /\ plants[sd.parent_id].root_position = ReproRoot
             /\ sd.pos # ReproRoot
             /\ IsValidSeedPosition(sd.pos, world)

\* C24: an offspring gets a newly allocated species id, different from its
\* parent's, exactly when the distance between the two genomes is strictly
\* above 0.25 (as at 0.30); otherwise (as at 0.10 and at exactly 0.25) it gets
\* its parent's species id.
C24_SpeciesByDistance ==
    [][probe'.kind = "species" =>
          LET l == probe'.last
              fresh == l.child = species_counter /\ l.child # l.parent
                       /\ l.child \notin probe.ids
          IN /\ fresh <=> l.distance > 250000
             /\ ~fresh => l.child = l.parent
             /\ l.distance = 300000 => fresh
             /\ l.distance \in {100000, 250000} => l.child = l.parent]_vars

\* offspring have been classified at distance 0.30, at 0.10 and at exactly 0.25
C24_Witness ==
    /\ probe.kind = "species"
    /\ probe.steps = MaxClassifications
    /\ probe.last.distance = 250000
    /\ probe.last.child = probe.last.parent
    /\ species_counter = INITIAL_SEED_COUNT + 1
    /\ INITIAL_SEED_COUNT \in probe.ids

\* C25: the species counter never decreases and only the reproduction pass
\* changes it, by exactly one per new species; every id it hands out differs
\* from the species id of every plant created before, the initial seeds
\* 0..INITIAL_SEED_COUNT-1 included, and from every id handed out earlier.
C25_SpeciesCounter ==
    [][/\ species_counter' >= species_counter
       /\ species_counter >= INITIAL_SEED_COUNT
       /\ species_counter' # species_counter =>
             /\ probe'.kind = "species" \/ JustRan("reproduction")
             /\ species_counter' = species_counter + 1
       /\ probe'.kind = "species" =>
             LET new == Len(probe'.handed) > Len(probe.handed)
                 id == probe'.handed[Len(probe'.handed)]
             IN /\ new <=> species_counter' = species_counter + 1
                /\ ~new => probe'.last.child \in probe.ids
                /\ new =>
                      /\ id = probe'.last.child
                      /\ id \notin probe.ids
                      /\ id \notin 0..(INITIAL_SEED_COUNT - 1)
                      /\ \A i \in 1..Len(probe.handed) : probe.handed[i] # id]_vars

\* the counter has handed out three ids, one after the other
C25_Witness ==
    /\ probe.kind = "species"
    /\ Len(probe.handed) = 3
    /\ species_counter = INITIAL_SEED_COUNT + 3
    /\ probe.ids = 0..(INITIAL_SEED_COUNT + 2)

\* C26: a plant's species_id is assigned once at creation (a unique id for each
\* initial seed; the parent's id or a freshly allocated id for an offspring) and
\* is never changed by any later pass for as long as the plant exists.
Created == DOMAIN plants' \ DOMAIN plants
InitialSeedsUnique(ps) ==
    \A a, b \in DOMAIN ps :
        (a # b /\ ps[a].generation = 0 /\ ps[b].generation = 0)
            => ps[a].species_id # ps[b].species_id
C26_SpeciesIdFixed ==
    [][ /\ InitialSeedsUnique(plants)
        /\ InitialSeedsUnique(plants')
        /\ \A id \in Persisting : plants'[id].species_id = plants[id].species_id
        /\ \A id \in Created :
              /\ JustRan("apply_deferred")
              /\ \E i \in 1..Len(seeds_to_spawn) :
                    /\ seeds_to_spawn[i].id = id
                    /\ plants'[id].species_id = seeds_to_spawn[i].seed.species_id
              /\ plants'[id].parent_id \in DOMAIN plants
              /\ \/ plants'[id].species_id = plants[plants'[id].parent_id].species_id
                 \/ plants'[id].species_id \in INITIAL_SEED_COUNT..(species_counter - 1)
      ]_vars
C26_Witness ==
    \E id \in DOMAIN plants :
        /\ plants[id].generation = 1
        /\ plants[id].age > 0
        /\ plants[id].parent_id \in DOMAIN plants
        /\ plants[id].species_id = plants[plants[id].parent_id].species_id

\* C27: reproduction is two-phase: offspring accepted during a reproduction pass
\* are instantiated only after the scan over all plants has finished, the scan
\* does not modify the grid, and no plant created in a pass is itself scanned,
\* charged or allowed to reproduce in that same pass.
Queued == { seeds_to_spawn'[i] : i \in (Len(seeds_to_spawn) + 1)..Len(seeds_to_spawn') }
C27_TwoPhaseReproduction ==
    [][ /\ JustRan("reproduction") =>
            /\ DOMAIN plants' = DOMAIN plants
            /\ world' = world
            /\ Len(seeds_to_spawn') >= Len(seeds_to_spawn)
            /\ SubSeq(seeds_to_spawn', 1, Len(seeds_to_spawn)) = seeds_to_spawn
            /\ \A q \in Queued :
                  /\ q.id \notin DOMAIN plants
                  /\ q.seed.parent_id \in DOMAIN plants
                  /\ MayReproduce(plants[q.seed.parent_id])
                  /\ q.seed.generation = plants[q.seed.parent_id].generation + 1
            /\ \A q1, q2 \in Queued :
                  q1 # q2 => (q1.id # q2.id /\ q1.seed.parent_id # q2.seed.parent_id)
            /\ \A id \in DOMAIN plants :
                  plants'[id].energy
                     \in {plants[id].energy, plants[id].energy - REPRODUCTION_ENERGY_COST}
        /\ Created # {} =>
            /\ JustRan("apply_deferred")
            /\ sched["reproduction"] # "ready"
            /\ Created = { seeds_to_spawn[i].id : i \in 1..Len(seeds_to_spawn) }
            /\ seeds_to_spawn' = <<>>
            /\ \A id \in Created :
                  /\ plants'[id].energy = STARTING_ENERGY
                  /\ plants'[id].age = 0
      ]_vars
\* a pass has accepted an offspring that is queued and not yet a plant, while
\* its parent has been charged
C27_Witness ==
    /\ sched["reproduction"] = "ran"
    /\ sched["apply_deferred"] = "ready"
    /\ Len(seeds_to_spawn) = 1
    /\ seeds_to_spawn[1].id \notin DOMAIN plants
    /\ seeds_to_spawn[1].seed.parent_id \in DOMAIN plants
    /\ ~MayReproduce(plants[seeds_to_spawn[1].seed.parent_id])

\* C28: genome distance is the unweighted mean of the absolute differences of
\* all 9 genes: it is 0 between a genome and an exact clone, 1 between the all-0
\* and the all-1 genome, symmetric in its arguments, and within [0,1] for all
\* genomes with genes in [0,1].
RECURSIVE AbsDiffSum(_, _, _)
AbsDiffSum(a, b, genes) ==
    IF genes = {} THEN 0
    ELSE LET n == CHOOSE g \in genes : TRUE
         IN (IF a[n] >= b[n] THEN a[n] - b[n] ELSE b[n] - a[n])
            + AbsDiffSum(a, b, genes \ {n})
C28_GenomeDistance ==
    (probe.kind = "distance" /\ probe.calls > 0) =>
        /\ Cardinality(GeneSet) = 9
        /\ \A n \in GeneSet : probe.a[n] \in 0..1000 /\ probe.b[n] \in 0..1000
        /\ probe.d = (AbsDiffSum(probe.a, probe.b, GeneSet) * 1000) \div 9
        /\ probe.a = probe.b => probe.d = 0
        /\ probe.a # probe.b => probe.d > 0
        /\ (probe.a = UniformGenome(0) /\ probe.b = UniformGenome(1000))
              => probe.d = 1000000
        /\ probe.d = probe.back
        /\ probe.d \in 0..1000000
\* the distance between two genomes that differ in the last gene only has been
\* taken
C28_Witness ==
    /\ probe.kind = "distance"
    /\ probe.calls > 0
    /\ probe.a = UniformGenome(0)
    /\ probe.b = [UniformGenome(0) EXCEPT !["horizontal_growth_tendency"] = 1000]
    /\ probe.d = 111111

\* C29: reproduce returns a new genome and leaves the parent genome unchanged;
\* every gene of the child either equals the parent's gene or differs from it
\* by at most MUTATION_STRENGTH, and no other operation ever changes the genome
\* attached to a plant.
C29_GenomeFrame ==
    [][ /\ \A id \in Persisting : plants'[id].genome = plants[id].genome
        /\ JustRan("reproduction") =>
              \A q \in Queued :
                 LET parent == q.seed.parent_id
                 IN /\ plants'[parent].genome = plants[parent].genome
                    /\ \A n \in GeneSet :
                          \/ q.seed.genome[n] = plants[parent].genome[n]
                          \/ Abs(q.seed.genome[n] - plants[parent].genome[n])
                                <= MUTATION_STRENGTH
        /\ \A i \in 1..Min(Len(seeds_to_spawn), Len(seeds_to_spawn')) :
              seeds_to_spawn'[i].seed.genome = seeds_to_spawn[i].seed.genome
        /\ \A id \in Created :
              \E i \in 1..Len(seeds_to_spawn) :
                 /\ seeds_to_spawn[i].id = id
                 /\ plants'[id].genome = seeds_to_spawn[i].seed.genome
      ]_vars
\* an offspring whose genes were all mutated lives on next to its parent, whose
\* genome is the one it started with
C29_Witness ==
    \E id \in DOMAIN plants :
        /\ plants[id].generation = 1
        /\ plants[id].age > 0
        /\ plants[id].parent_id \in DOMAIN plants
        /\ plants[plants[id].parent_id].genome = UniformGenome(0)
        /\ \A n \in GeneSet \ {"mutation_rate"} :
              plants[id].genome[n] = MUTATION_STRENGTH - 1

\* C30: for a living plant that receives no photosynthesis gain (zero light, or
\* no leaves), every metabolism tick with dt > 0 strictly decreases its energy
\* (root absorption gain is always smaller than the maintenance drain), so its
\* energy eventually reaches <= 0 and its alive flag flips to false exactly once.
NoPhotosynthesisGain(p) ==
    \A i \in 1..Len(p.leaf_positions) :
        Get(world, p.leaf_positions[i]) # Absent
            => Get(world, p.leaf_positions[i]).light_level = 0
C30_TickDecreases ==
    /\ dt > 0
    /\ \A id \in Persisting :
          /\ (plants[id].is_alive /\ NoPhotosynthesisGain(plants[id])) =>
                /\ JustRan("resource_absorption") =>
                      /\ plants'[id].energy >= plants[id].energy
                      /\ plants'[id].energy - plants[id].energy
                            < TotalMaintenance(plants[id])
                /\ JustRan("maintenance_cost") =>
                      /\ plants'[id].energy
                            = plants[id].energy - TotalMaintenance(plants[id])
                      /\ plants'[id].is_alive <=> plants'[id].energy > 0
                /\ ~JustRan("resource_absorption") =>
                      plants'[id].energy <= plants[id].energy
          /\ (JustRan("apply_deferred") /\ probe.kind = "starve"
                /\ id \in DOMAIN probe.start
                /\ NoPhotosynthesisGain(plants[id]))
                => plants[id].energy < probe.start[id]
          /\ (plants[id].is_alive /\ ~plants'[id].is_alive) =>
                /\ JustRan("maintenance_cost")
                /\ plants'[id].energy <= 0
          /\ ~plants[id].is_alive => ~plants'[id].is_alive
C30_StarvationDeath ==
    /\ [][C30_TickDecreases]_vars
    /\ \A id \in 1..MaxPlants :
          (id \in DOMAIN plants /\ plants[id].is_alive)
             ~> (id \notin DOMAIN plants \/ ~plants[id].is_alive)
\* a plant that lived through more than one frame of falling energy is dead,
\* with energy at or below zero, and not yet removed
C30_Witness ==
    /\ probe.kind = "starve"
    /\ frame >= 3
    /\ \E id \in DOMAIN plants :
          /\ ~plants[id].is_alive
          /\ plants[id].energy <= 0
          /\ Len(plants[id].root_positions) = 2

\* C31: startup seeding with count N on a freshly initialised world creates
\* exactly N plants, each rooted at a Soil cell on the soil surface (Air directly
\* above), each with generation 0 and no parent, and with species ids 0, 1, ...,
\* N-1 assigned in order, all distinct.
AtStartup == frame = 1 /\ \A s \in Steps : sched[s] = "ready"
C31_StartupSeeding ==
    AtStartup =>
        /\ world = NewWorld
        /\ DOMAIN plants = 1..INITIAL_SEED_COUNT
        /\ Cardinality(DOMAIN plants) = INITIAL_SEED_COUNT
        /\ \A id \in DOMAIN plants :
              LET root == plants[id].root_position
              IN /\ IsInBounds(root)
                 /\ Get(world, root).voxel_type = "Soil"
                 /\ Get(world, VoxelPos(root[1], root[2] + 1, root[3])) # Absent
                 /\ Get(world, VoxelPos(root[1], root[2] + 1, root[3])).voxel_type = "Air"
                 /\ plants[id].generation = 0
                 /\ plants[id].parent_id = 0
                 /\ plants[id].species_id = id - 1
                 /\ plants[id].voxel_positions = <<root>>
        /\ \A a, b \in DOMAIN plants :
              a # b => plants[a].species_id # plants[b].species_id
\* seeding has placed its N seeds at different cells of the surface row
C31_Witness ==
    /\ AtStartup
    /\ Cardinality(DOMAIN plants) = INITIAL_SEED_COUNT
    /\ Cardinality({ plants[id].root_position : id \in DOMAIN plants })
          = INITIAL_SEED_COUNT
    /\ \A id \in DOMAIN plants : plants[id].species_id = id - 1

\* C32: for every plant at every tick, leaf_positions and root_positions are
\* subsets of voxel_positions, and root_position is a member of both
\* voxel_positions and root_positions.
C32_StructureSubsets ==
    \A id \in DOMAIN plants :
        /\ Range(plants[id].leaf_positions) \subseteq Range(plants[id].voxel_positions)
        /\ Range(plants[id].root_positions) \subseteq Range(plants[id].voxel_positions)
        /\ plants[id].root_position \in Range(plants[id].voxel_positions)
        /\ plants[id].root_position \in Range(plants[id].root_positions)
\* a plant holds a leaf and a root cell below its root, next to its stem cells
C32_Witness ==
    \E id \in DOMAIN plants :
        /\ plants[id].leaf_positions # <<>>
        /\ Len(plants[id].root_positions) >= 2
        /\ Len(plants[id].voxel_positions)
              > Len(plants[id].leaf_positions) + Len(plants[id].root_positions)

\* C33: in reproduce, the mutation-rate gene is gated by a single draw against
\* MUTATION_RATE x 0.5: whenever that draw passes, the gene is perturbed by an
\* offset in [-MUTATION_STRENGTH, +MUTATION_STRENGTH] (clamped), with no further
\* gate; every other gene is gated by a single draw against MUTATION_RATE.
Perturbed(value, change) == Clamp(value + change, 0, 1000)
C33_MetaGeneSingleGate ==
    [][(probe.kind = "gene" /\ probe'.kind = "gene" /\ probe'.op = "reproduce"
          /\ probe'.steps = probe.steps + 1) =>
          LET d == probe'.draws
          IN /\ \A n \in GeneSet : d.change[n] \in (0 - MUTATION_STRENGTH)..MUTATION_STRENGTH
             /\ probe'.genome["mutation_rate"]
                   = IF d.meta
                     THEN Perturbed(probe.genome["mutation_rate"], d.change["mutation_rate"])
                     ELSE probe.genome["mutation_rate"]
             /\ \A n \in GeneSet \ {"mutation_rate"} :
                   probe'.genome[n]
                      = IF d.gate[n] THEN Perturbed(probe.genome[n], d.change[n])
                        ELSE probe.genome[n]
      ]_vars

\* C34: the regeneration pass changes only the nutrients and water of cells whose
\* type is Soil, raising each by its fixed per-tick rate capped at the maximum;
\* the voxel type and light level of every cell, and all fields of Air and
\* PlantMaterial cells (including root cells that have been converted to plant
\* material), are left unchanged.
C34_RegenerationFrame ==
    [][JustRan("regenerate_resources") =>
          /\ DOMAIN world' = DOMAIN world
          /\ plants' = plants
          /\ \A k \in DOMAIN world :
                /\ world'[k].voxel_type = world[k].voxel_type
                /\ world'[k].light_level = world[k].light_level
                /\ world'[k].plant_id = world[k].plant_id
                /\ world'[k].species_id = world[k].species_id
                /\ world[k].voxel_type # "Soil" => world'[k] = world[k]
                /\ world[k].voxel_type = "Soil" =>
                      /\ world'[k].nutrients
                            = IF world[k].nutrients + NUTRIENT_REGEN_RATE > SOIL_NUTRIENT_MAX
                              THEN SOIL_NUTRIENT_MAX
                              ELSE world[k].nutrients + NUTRIENT_REGEN_RATE
                      /\ world'[k].water
                            = IF world[k].water + WATER_REGEN_RATE > SOIL_WATER_MAX
                              THEN SOIL_WATER_MAX
                              ELSE world[k].water + WATER_REGEN_RATE
      ]_vars
\* regeneration has run in the second frame: a Soil root cell drained in the
\* first frame is partly refilled, water ahead of nutrients, and a root cell
\* that is plant material keeps the lower levels absorption left it with
C34_Witness ==
    /\ frame = 2
    /\ sched["regenerate_resources"] = "ran"
    /\ sched["resource_absorption"] = "ready"
    /\ \E k \in DOMAIN world :
          /\ world[k].voxel_type = "Soil"
          /\ world[k].nutrients < SOIL_NUTRIENT_MAX
          /\ world[k].water = world[k].nutrients + WATER_REGEN_RATE - NUTRIENT_REGEN_RATE
    /\ \E k \in DOMAIN world :
          /\ world[k].voxel_type = "PlantMaterial"
          /\ world[k].nutrients < SOIL_NUTRIENT_MAX
          /\ world[k].water = world[k].nutrients

\* C35: the greedy species estimate over the alive genomes, taken in iteration
\* order, returns the number of representatives such that every genome is either
\* a representative or at distance strictly less than 0.15 from a representative
\* that precedes it, and each representative is at distance >= 0.15 from all
\* earlier representatives; the result is between 1 and the population for a
\* non-empty population and 0 for an empty one.
GreedyRepresentatives(genomes, reps) ==
    \A i \in 1..Len(genomes) :
        /\ i \in reps =>
              \A j \in reps : j < i =>
                  Distance(genomes[i], genomes[j]) >= SPECIES_CLUSTER_THRESHOLD
        /\ i \notin reps =>
              \E j \in reps : j < i /\
                  Distance(genomes[i], genomes[j]) < SPECIES_CLUSTER_THRESHOLD
C35_GreedySpeciesEstimate ==
    probe.kind = "cluster" =>
        /\ \E reps \in SUBSET (1..Len(probe.genomes)) :
              /\ GreedyRepresentatives(probe.genomes, reps)
              /\ probe.species_count = Cardinality(reps)
        /\ \A reps \in SUBSET (1..Len(probe.genomes)) :
              GreedyRepresentatives(probe.genomes, reps)
                 => probe.species_count = Cardinality(reps)
        /\ probe.genomes = <<>> => probe.species_count = 0
        /\ probe.genomes # <<>> => probe.species_count \in 1..Len(probe.genomes)
\* four genomes in a chain: the second joins the first, the third stands at
\* exactly 0.15 from the first and starts a cluster, the fourth joins the third
C35_Witness ==
    /\ probe.kind = "cluster"
    /\ probe.genomes = <<UniformGenome(0), UniformGenome(100), UniformGenome(150),
                         UniformGenome(200)>>
    /\ probe.species_count = 2

C38_MassIsVoxelCount ==
    \A id \in DOMAIN plants :
        plants[id].total_mass = Len(plants[id].voxel_positions)

\* C39: the genetic distance between a parent genome and the genome reproduce
\* returns from it is at most MUTATION_STRENGTH (0.1), for any random draws;
\* consequently the new-species branch of the reproduction pass (distance > 0.25)
\* is never taken, the species counter keeps its initial value forever, and
\* every offspring carries its parent's species id.
MaxChildDistance == MUTATION_STRENGTH * 1000
C39_NoDivergence ==
    [][ /\ species_counter = INITIAL_SEED_COUNT
        /\ species_counter' = INITIAL_SEED_COUNT
        /\ JustRan("reproduction") =>
              \A q \in Queued :
                 LET parent == plants[q.seed.parent_id]
                 IN /\ Distance(parent.genome, q.seed.genome) <= MaxChildDistance
                    /\ Distance(parent.genome, q.seed.genome) <= SPECIES_DIVERGENCE_THRESHOLD
                    /\ q.seed.species_id = parent.species_id
        /\ \A id \in Created :
              /\ plants'[id].parent_id \in DOMAIN plants
              /\ plants'[id].species_id = plants[plants'[id].parent_id].species_id
              /\ Distance(plants[plants'[id].parent_id].genome, plants'[id].genome)
                    <= MaxChildDistance
        /\ (probe.kind = "gene" /\ probe'.kind = "gene" /\ probe'.op = "reproduce"
              /\ probe'.steps = probe.steps + 1)
              => Distance(probe.genome, probe'.genome) <= MaxChildDistance
      ]_vars
\* an offspring all of whose genes were mutated by the largest upward change is
\* queued: it is at distance 0.099 of its parent and carries the parent's species
C39_Witness ==
    /\ sched["reproduction"] = "ran"
    /\ Len(seeds_to_spawn) = 1
    /\ species_counter = INITIAL_SEED_COUNT
    /\ LET sd == seeds_to_spawn[1].seed
       IN /\ sd.parent_id \in DOMAIN plants
          /\ Distance(plants[sd.parent_id].genome, sd.genome)
                = (MUTATION_STRENGTH - 1) * 1000
          /\ sd.species_id = plants[sd.parent_id].species_id

\* C40: the number of Air cells in the grid never increases over any sequence of
\* ticks: no operation turns a Soil or PlantMaterial cell into Air, and cleanup
\* turns every cell a dead plant held into Soil, including cells that were Air
\* before the plant claimed them, so the number of Soil cells can exceed its
\* initial value.
CellsOfType(w, ty) == { k \in DOMAIN w : w[k].voxel_type = ty }
C40_AirNeverReturns ==
    [][ /\ Cardinality(CellsOfType(world', "Air")) <= Cardinality(CellsOfType(world, "Air"))
        /\ CellsOfType(world', "Air") \subseteq CellsOfType(world, "Air")
        /\ JustRan("cleanup_dead_plants") =>
              \A id \in DOMAIN plants :
                  (plants[id].changed /\ ~plants[id].is_alive) =>
                      \A pos \in Range(plants[id].voxel_positions) :
                          IsInBounds(pos) => Get(world', pos).voxel_type = "Soil"
      ]_vars
\* cleanup has turned a dead plant's cells above the surface into Soil: the grid
\* holds more Soil cells than the fresh world, some of them above the surface row
C40_Witness ==
    /\ sched["cleanup_dead_plants"] = "ran"
    /\ Cardinality(CellsOfType(world, "Soil")) > Cardinality(CellsOfType(NewWorld, "Soil"))
    /\ \E k \in CellsOfType(world, "Soil") : IndexToPos(k - 1)[2] >= WORLD_HEIGHT \div 2
    /\ \E id \in DOMAIN plants : id \in despawn_queue /\ ~plants[id].is_alive

====
